---- MODULE Spec2Model ----
(***************************************************************************)
(* A model of github.com/nduyhai/xerr: the StructuredError value, its      *)
(* Reason objects, the detail codec over the metadata map, and the gRPC    *)
(* and HTTP adapters.                                                      *)
(*                                                                         *)
(* Errors and reasons are Go pointers, so they live in heaps (errs,        *)
(* reasons, plains) and are named by their index; 0 is the nil pointer or  *)
(* the nil interface.  Strings are TLA+ strings.  Two characters stand for *)
(* bytes that matter to the encoders: BadByte is a byte that is not valid  *)
(* UTF-8 (Go strings hold arbitrary bytes) and Replacement is U+FFFD.      *)
(***************************************************************************)
EXTENDS Integers, Sequences, FiniteSets, TLC

VARIABLES
    errs,     \* heap of *StructuredError, a sequence of records
    reasons,  \* heap of Reason objects (DefaultReason or a custom implementation)
    plains,   \* heap of errors that are not StructuredErrors (errors.New, fmt.Errorf)
    op,       \* the last operation called: its name, receiver, argument, heap before
    ret,      \* what the last operation returned
    DefaultConverter  \* the package variable: the CodeConverter in use

vars == <<errs, reasons, plains, op, ret, DefaultConverter>>

\* ------------------------------------------------------------------ bounds

MaxErrs == 2
MaxReasons == 3

\* ----------------------------------------------------------------- strings

BadByte == "#"
Replacement == "?"

RECURSIVE ValidUTF8(_)
ValidUTF8(s) ==
    IF Len(s) = 0 THEN TRUE
    ELSE SubSeq(s, 1, 1) # BadByte /\ ValidUTF8(SubSeq(s, 2, Len(s)))

\* ---------------------------------------------------- map[string]string

\* A Go map value: the nil map, or an allocated map m (possibly empty).
NilMap == [nil |-> TRUE, m |-> [k \in {} |-> ""]]
MakeMap == [nil |-> FALSE, m |-> [k \in {} |-> ""]]
MapOf(f) == [nil |-> FALSE, m |-> f]
MapLen(md) == Cardinality(DOMAIN md.m)
MapPut(md, k, v) ==
    [nil |-> FALSE,
     m |-> [x \in (DOMAIN md.m) \cup {k} |-> IF x = k THEN v ELSE md.m[x]]]
\* for k, v := range src { dst[k] = v }
MapCopyInto(dst, src) ==
    [nil |-> FALSE,
     m |-> [x \in (DOMAIN dst.m) \cup (DOMAIN src.m) |->
               IF x \in DOMAIN src.m THEN src.m[x] ELSE dst.m[x]]]
\* The key/value pairs of a map; nil and empty both have none.
Pairs(md) == {<<k, md.m[k]>> : k \in DOMAIN md.m}

\* ------------------------------------------------------------- references

\* A Go error interface value: nil, a *StructuredError, or some other error.
NilErr == [kind |-> "nil", id |-> 0]
SE(i) == [kind |-> "se", id |-> i]
Plain(i) == [kind |-> "plain", id |-> i]

\* ------------------------------------------------------------------ Reason

NewDefaultReason(code, message) ==
    [kind |-> "default", code |-> code, message |-> message, reason |-> ""]
\* (*DefaultReason).WithReason
DefaultReasonWithReason(r, text) == [r EXCEPT !.reason = text]
\* A caller's own Reason implementation: an immutable holder of three strings.
CustomReason(code, message, text) ==
    [kind |-> "custom", code |-> code, message |-> message, reason |-> text]

\* --------------------------------------------------------- StructuredError

StructuredError(reason, grpc, http, md, domain, cause) ==
    [reason |-> reason, GRPCCode |-> grpc, HTTPCode |-> http,
     Metadata |-> md, Domain |-> domain, Cause |-> cause]

GetCode(e) == IF e.reason = 0 THEN "" ELSE reasons[e.reason].code
GetMessage(e) == IF e.reason = 0 THEN "" ELSE reasons[e.reason].message
GetUserReason(e) == IF e.reason = 0 THEN "" ELSE reasons[e.reason].reason
GetMetadata(e) == e.Metadata
GetCause(e) == e.Cause
Unwrap(e) == e.Cause

NoOp == [name |-> "init", recv |-> 0, arg |-> <<>>, errs |-> <<>>, reasons |-> <<>>]
Call(name, recv, arg) ==
    [name |-> name, recv |-> recv, arg |-> arg, errs |-> errs, reasons |-> reasons]

\* ------------------------------------------------------------- code tables

\* google.golang.org/grpc/codes: the 17 standard codes, by name.
GRPCCodes ==
    {"OK", "Canceled", "Unknown", "InvalidArgument", "DeadlineExceeded",
     "NotFound", "AlreadyExists", "PermissionDenied", "ResourceExhausted",
     "FailedPrecondition", "Aborted", "OutOfRange", "Unimplemented",
     "Internal", "Unavailable", "DataLoss", "Unauthenticated"}
\* codes.Code is a uint32: a value outside the 17.
OtherGRPCCode == "Code(99)"

\* A table that knows OK only.
grpcToHTTPCode_OnlyOK(code) == IF code = "OK" THEN 200 ELSE 500

grpcToHTTPCode(code) ==
    CASE code = "OK" -> 200
      [] code = "Canceled" -> 499
      [] code = "Unknown" -> 500
      [] code = "InvalidArgument" -> 400
      [] code = "DeadlineExceeded" -> 504
      [] code = "NotFound" -> 404
      [] code = "AlreadyExists" -> 409
      [] code = "PermissionDenied" -> 403
      [] code = "ResourceExhausted" -> 429
      [] code = "FailedPrecondition" -> 400
      [] code = "Aborted" -> 409
      [] code = "OutOfRange" -> 400
      [] code = "Unimplemented" -> 501
      [] code = "Internal" -> 500
      [] code = "Unavailable" -> 503
      [] code = "DataLoss" -> 500
      [] code = "Unauthenticated" -> 401
      [] OTHER -> 500

\* ---------------------------------------------------------- CodeConverter

\* CodeConverter values: &DefaultCodeConverter{} and an implementation of the
\* caller's that answers Internal to every HTTP code and 418 to every gRPC code.
BuiltInConverter == "DefaultCodeConverter"
CallerConverter == "MyCodeConverter"

\* ------------------------------------------------------------ gRPC status

\* A *status.Status: the nil pointer, or a code, a message and a list of details.
\* The accessors of a nil *Status answer OK and "".
NilStatus == [nil |-> TRUE, code |-> "OK", message |-> "", details |-> <<>>]
StatusNew(code, message) ==
    [nil |-> FALSE, code |-> code, message |-> message, details |-> <<>>]

ErrorInfo(reason, domain, md) ==
    [type |-> "ErrorInfo", Reason |-> reason, Domain |-> domain, Metadata |-> md.m]
LocalizedMessage(locale, message) ==
    [type |-> "LocalizedMessage", Locale |-> locale, Message |-> message]

\* anypb.New marshals the detail; a proto3 string field that is not valid UTF-8
\* makes the marshalling fail.
DetailMarshals(d) ==
    IF d.type = "ErrorInfo"
    THEN /\ ValidUTF8(d.Reason)
         /\ ValidUTF8(d.Domain)
         /\ \A k \in DOMAIN d.Metadata : ValidUTF8(k) /\ ValidUTF8(d.Metadata[k])
    ELSE ValidUTF8(d.Locale) /\ ValidUTF8(d.Message)

\* (*Status).WithDetails: (nil, error) for a status whose code is OK (a nil status
\* included) and when a detail cannot be marshalled; else a copy with the detail.
WithDetails(st, d) ==
    IF st.code = "OK" \/ ~DetailMarshals(d)
    THEN [st |-> NilStatus, err |-> TRUE]
    ELSE [st |-> [st EXCEPT !.details = Append(@, d)], err |-> FALSE]

DefaultDomain == "github.com/nduyhai/xerr"

\* The status (*StructuredError).ToGRPCStatus returns for e.
ToGRPCStatusOf(e) ==
    LET st0 == StatusNew(e.GRPCCode, GetMessage(e))
        r1 == IF MapLen(e.Metadata) > 0
              THEN WithDetails(st0, ErrorInfo(GetCode(e), DefaultDomain, e.Metadata))
              ELSE [st |-> st0, err |-> FALSE]
        userReason == GetUserReason(e)
    IN  IF r1.err THEN r1.st
        ELSE IF userReason # ""
             THEN WithDetails(r1.st, LocalizedMessage("en-US", userReason)).st
             ELSE r1.st

\* A ToGRPCStatus that allocates the error's metadata map on the way.
ToGRPCStatus_AllocatesMetadata(i) ==
    /\ i \in 1..Len(errs)
    /\ ret' = ToGRPCStatusOf(errs[i])
    /\ op' = Call("ToGRPCStatus", i, <<>>)
    /\ errs' = [errs EXCEPT ![i].Metadata = IF @.nil THEN MakeMap ELSE @]
    /\ UNCHANGED <<reasons, plains, DefaultConverter>>

ToGRPCStatus(i) ==
    /\ i \in 1..Len(errs)
    /\ ret' = ToGRPCStatusOf(errs[i])
    /\ op' = Call("ToGRPCStatus", i, <<>>)
    /\ UNCHANGED <<errs, reasons, plains, DefaultConverter>>

\* The loop of FromGRPCStatus over st.Details().
RECURSIVE ScanDetails(_, _)
ScanDetails(details, acc) ==
    IF details = <<>> THEN acc
    ELSE LET d == Head(details)
             next == CASE d.type = "ErrorInfo" ->
                            [acc EXCEPT !.code = d.Reason,
                                        !.metadata = MapCopyInto(@, MapOf(d.Metadata))]
                       [] d.type = "LocalizedMessage" ->
                            [acc EXCEPT !.userReason = d.Message]
                       [] OTHER -> acc
         IN  ScanDetails(Tail(details), next)

\* What FromGRPCStatus extracts from a non-nil status.
FromGRPCStatusFields(st) ==
    ScanDetails(st.details,
                [code |-> "UNKNOWN", message |-> st.message, userReason |-> "",
                 metadata |-> MakeMap])

\* A FromGRPCStatus that gives the two validation codes of the registry their
\* HTTP code 422 back.
FromGRPCStatusOf_Restores422(st, rid) ==
    LET f == FromGRPCStatusFields(st)
        r0 == NewDefaultReason(f.code, f.message)
    IN  [reason |-> IF f.userReason # ""
                    THEN DefaultReasonWithReason(r0, f.userReason) ELSE r0,
         err |-> StructuredError(rid, st.code,
                                 IF f.code \in {"DATA_VALIDATION", "BUSINESS_RULE"}
                                 THEN 422 ELSE grpcToHTTPCode(st.code),
                                 f.metadata, "", NilErr)]

\* The reason and the error FromGRPCStatus builds from a non-nil status; rid is
\* the place the new reason gets in the heap.
FromGRPCStatusOf(st, rid) ==
    LET f == FromGRPCStatusFields(st)
        r0 == NewDefaultReason(f.code, f.message)
    IN  [reason |-> IF f.userReason # ""
                    THEN DefaultReasonWithReason(r0, f.userReason) ELSE r0,
         err |-> StructuredError(rid, st.code, grpcToHTTPCode(st.code),
                                 f.metadata, "", NilErr)]

\* FromGRPCStatus(st).  op.recv names the error st was made from, when st is the
\* status the preceding ToGRPCStatus returned.
FromGRPCStatus(st) ==
    /\ op' = Call("FromGRPCStatus",
                  IF op.name = "ToGRPCStatus" /\ ret = st THEN op.recv ELSE 0, st)
    /\ IF st.nil
       THEN /\ ret' = NilErr
            /\ UNCHANGED <<errs, reasons, plains, DefaultConverter>>
       ELSE LET new == FromGRPCStatusOf(st, Len(reasons) + 1)
            IN  /\ Len(errs) < MaxErrs
                /\ Len(reasons) < MaxReasons
                /\ reasons' = Append(reasons, new.reason)
                /\ errs' = Append(errs, new.err)
                /\ ret' = SE(Len(errs) + 1)
                /\ UNCHANGED <<plains, DefaultConverter>>

\* ----------------------------------------------------------- constructors

\* Allocation: the new reason and the new error take the next places of the heaps.
CanAllocate == Len(errs) < MaxErrs /\ Len(reasons) < MaxReasons

\* The standard application codes and their (gRPC code, HTTP code).
StandardErrorMapping ==
    [c \in {"UNKNOWN", "INTERNAL", "UNAVAILABLE", "TIMEOUT", "CANCELLED",
            "INVALID_ARGUMENT", "FAILED_PRECONDITION", "OUT_OF_RANGE",
            "UNAUTHENTICATED", "PERMISSION_DENIED", "NOT_FOUND", "ALREADY_EXISTS",
            "RESOURCE_EXHAUSTED", "ABORTED", "DATA_LOSS", "DATA_VALIDATION",
            "BUSINESS_RULE", "CONFLICT"} |->
        CASE c = "UNKNOWN" -> [GRPCCode |-> "Unknown", HTTPCode |-> 500]
          [] c = "INTERNAL" -> [GRPCCode |-> "Internal", HTTPCode |-> 500]
          [] c = "UNAVAILABLE" -> [GRPCCode |-> "Unavailable", HTTPCode |-> 503]
          [] c = "TIMEOUT" -> [GRPCCode |-> "DeadlineExceeded", HTTPCode |-> 504]
          [] c = "CANCELLED" -> [GRPCCode |-> "Canceled", HTTPCode |-> 499]
          [] c = "INVALID_ARGUMENT" -> [GRPCCode |-> "InvalidArgument", HTTPCode |-> 400]
          [] c = "FAILED_PRECONDITION" ->
                [GRPCCode |-> "FailedPrecondition", HTTPCode |-> 400]
          [] c = "OUT_OF_RANGE" -> [GRPCCode |-> "OutOfRange", HTTPCode |-> 400]
          [] c = "UNAUTHENTICATED" -> [GRPCCode |-> "Unauthenticated", HTTPCode |-> 401]
          [] c = "PERMISSION_DENIED" -> [GRPCCode |-> "PermissionDenied", HTTPCode |-> 403]
          [] c = "NOT_FOUND" -> [GRPCCode |-> "NotFound", HTTPCode |-> 404]
          [] c = "ALREADY_EXISTS" -> [GRPCCode |-> "AlreadyExists", HTTPCode |-> 409]
          [] c = "RESOURCE_EXHAUSTED" ->
                [GRPCCode |-> "ResourceExhausted", HTTPCode |-> 429]
          [] c = "ABORTED" -> [GRPCCode |-> "Aborted", HTTPCode |-> 409]
          [] c = "DATA_LOSS" -> [GRPCCode |-> "DataLoss", HTTPCode |-> 500]
          [] c = "DATA_VALIDATION" -> [GRPCCode |-> "InvalidArgument", HTTPCode |-> 422]
          [] c = "BUSINESS_RULE" -> [GRPCCode |-> "FailedPrecondition", HTTPCode |-> 422]
          [] c = "CONFLICT" -> [GRPCCode |-> "Aborted", HTTPCode |-> 409]]

\* A lookup that derives the codes of DATA_VALIDATION and BUSINESS_RULE from the
\* gRPC table instead of the registry (422 becomes 400).
StandardMappingOf_Derived(code) ==
    IF code \in DOMAIN StandardErrorMapping
    THEN [GRPCCode |-> StandardErrorMapping[code].GRPCCode,
          HTTPCode |-> grpcToHTTPCode(StandardErrorMapping[code].GRPCCode)]
    ELSE StandardErrorMapping["UNKNOWN"]

\* mapping, exists := StandardErrorMapping[code]; if !exists the UNKNOWN entry.
StandardMappingOf(code) ==
    IF code \in DOMAIN StandardErrorMapping
    THEN StandardErrorMapping[code]
    ELSE StandardErrorMapping["UNKNOWN"]

\* NewStandardError(code, message)
NewStandardError(code, message) ==
    /\ CanAllocate
    /\ reasons' = Append(reasons, NewDefaultReason(code, message))
    /\ errs' = Append(errs,
           StructuredError(Len(reasons) + 1, StandardMappingOf(code).GRPCCode,
                           StandardMappingOf(code).HTTPCode, NilMap, "", NilErr))
    /\ ret' = SE(Len(errs) + 1)
    /\ op' = Call("NewStandardError", 0, [code |-> code, message |-> message])
    /\ UNCHANGED <<plains, DefaultConverter>>

\* ------------------------------------------------- inputs of the adapters

\* One error under conversion: any field a caller can set, metadata nil, empty or
\* filled, a reason that is the default implementation, a custom one, or no reason.
CodeInputs == {"CODE", "BAD" \o BadByte}
MessageInputs == {"msg", ""}
ReasonInputs == {"", "try again", "r" \o BadByte}
GRPCInputs == GRPCCodes \cup {OtherGRPCCode}
HTTPInputs == {404, 422, 500}
MetadataInputs ==
    {NilMap, MakeMap,
     MapOf([k \in {"k"} |-> "v"]),
     MapOf([k \in {"k", "field:email"} |-> IF k = "k" THEN "v" ELSE "bad format"]),
     MapOf([k \in {"k"} |-> "v" \o BadByte])}
DomainInputs == {"", "service.domain"}

InitOneError ==
    /\ DefaultConverter = BuiltInConverter
    /\ plains = <<>>
    /\ op = NoOp
    /\ ret = NilErr
    /\ \E g \in GRPCInputs, h \in HTTPInputs, md \in MetadataInputs, d \in DomainInputs :
         \/ /\ reasons = <<>>
            /\ errs = <<StructuredError(0, g, h, md, d, NilErr)>>
         \/ \E c \in CodeInputs, m \in MessageInputs, r \in ReasonInputs :
              /\ reasons \in {<<DefaultReasonWithReason(NewDefaultReason(c, m), r)>>,
                              <<CustomReason(c, m, r)>>}
              /\ errs = <<StructuredError(1, g, h, md, d, NilErr)>>

\* ---------------------------------------------------------------- SpecRPC
\* One error, converted to a gRPC status and back.

NextRPC ==
    \/ \E i \in 1..Len(errs) : ToGRPCStatus(i)
    \/ /\ op.name = "ToGRPCStatus"
       /\ FromGRPCStatus(ret)

SpecRPC == InitOneError /\ [][NextRPC]_vars

\* ----------------------------------------------------------- HTTP adapter

\* A table that knows the classes of status only.
httpToGRPCCode_ByClass(httpCode) ==
    IF httpCode >= 200 /\ httpCode < 300 THEN "OK"
    ELSE IF httpCode >= 400 /\ httpCode < 500 THEN "InvalidArgument" ELSE "Unknown"

httpToGRPCCode(httpCode) ==
    CASE httpCode >= 200 /\ httpCode < 300 -> "OK"
      [] httpCode = 400 -> "InvalidArgument"
      [] httpCode = 401 -> "Unauthenticated"
      [] httpCode = 403 -> "PermissionDenied"
      [] httpCode = 404 -> "NotFound"
      [] httpCode = 409 -> "Aborted"
      [] httpCode = 422 -> "FailedPrecondition"
      [] httpCode = 429 -> "ResourceExhausted"
      [] httpCode = 499 -> "Canceled"
      [] httpCode = 500 -> "Internal"
      [] httpCode = 501 -> "Unimplemented"
      [] httpCode = 503 -> "Unavailable"
      [] httpCode = 504 -> "DeadlineExceeded"
      [] OTHER -> IF httpCode >= 400 /\ httpCode < 500
                  THEN "InvalidArgument" ELSE "Unknown"

\* encoding/json writes a string coerced to valid UTF-8: every invalid byte becomes
\* U+FFFD.
RECURSIVE ToValidUTF8(_)
ToValidUTF8(s) ==
    IF Len(s) = 0 THEN ""
    ELSE (IF SubSeq(s, 1, 1) = BadByte THEN Replacement ELSE SubSeq(s, 1, 1))
         \o ToValidUTF8(SubSeq(s, 2, Len(s)))

\* The bytes of a JSON text, up to white space and escaping: text that is not JSON,
\* or a JSON object given by its members, each a string, a number, null or an
\* object whose members are strings.
NotJSON == [valid |-> FALSE, members |-> [k \in {} |-> ""]]
JSONObject(members) == [valid |-> TRUE, members |-> members]
\* A JSON value: its type t, its text v when a string, its members o when an object.
NoMembers == [k \in {} |-> ""]
JSONString(s) == [t |-> "string", v |-> ToValidUTF8(s), o |-> NoMembers]
JSONNumber == [t |-> "number", v |-> "", o |-> NoMembers]
JSONNull == [t |-> "null", v |-> "", o |-> NoMembers]
\* The input maps hold no two keys that coerce to the same key.
JSONStringMap(m) ==
    [t |-> "object", v |-> "",
     o |-> [k \in {ToValidUTF8(x) : x \in DOMAIN m} |->
               ToValidUTF8(m[CHOOSE x \in DOMAIN m : ToValidUTF8(x) = k])]]

HTTPError(code, message, reason, metadata) ==
    [Code |-> code, Message |-> message, Reason |-> reason, Metadata |-> metadata]

\* json.Marshal(HTTPError): "reason" and "metadata" are omitempty.
Marshal(httpErr) ==
    JSONObject(
        [f \in {"code", "message"}
               \cup (IF httpErr.Reason # "" THEN {"reason"} ELSE {})
               \cup (IF MapLen(httpErr.Metadata) > 0 THEN {"metadata"} ELSE {}) |->
            CASE f = "code" -> JSONString(httpErr.Code)
              [] f = "message" -> JSONString(httpErr.Message)
              [] f = "reason" -> JSONString(httpErr.Reason)
              [] f = "metadata" -> JSONStringMap(httpErr.Metadata.m)])

\* json.Unmarshal into a string field: a JSON string is stored, null and an absent
\* member leave "", any other value is a type error.
StringMember(doc, f) ==
    IF f \notin DOMAIN doc.members \/ doc.members[f].t = "null"
    THEN [v |-> "", err |-> FALSE]
    ELSE IF doc.members[f].t = "string"
         THEN [v |-> doc.members[f].v, err |-> FALSE]
         ELSE [v |-> "", err |-> TRUE]

\* json.Unmarshal into a map[string]string field: an object of strings makes a map
\* (empty for {}), null and an absent member leave the nil map.
MapMember(doc, f) ==
    IF f \notin DOMAIN doc.members \/ doc.members[f].t = "null"
    THEN [v |-> NilMap, err |-> FALSE]
    ELSE IF doc.members[f].t = "object"
         THEN [v |-> MapOf(doc.members[f].o), err |-> FALSE]
         ELSE [v |-> NilMap, err |-> TRUE]

\* json.Unmarshal(jsonBytes, &httpErr).
Unmarshal(doc) ==
    LET c == StringMember(doc, "code")
        m == StringMember(doc, "message")
        r == StringMember(doc, "reason")
        md == MapMember(doc, "metadata")
    IN  [httpErr |-> HTTPError(c.v, m.v, r.v, md.v),
         err |-> ~doc.valid \/ c.err \/ m.err \/ r.err \/ md.err]

\* What (*StructuredError).ToHTTPJSON returns for e.
ToHTTPJSONOf(e) ==
    [jsonBytes |-> Marshal(HTTPError(GetCode(e), GetMessage(e), GetUserReason(e),
                                     e.Metadata)),
     status |-> e.HTTPCode]

ToHTTPJSON(i) ==
    /\ i \in 1..Len(errs)
    /\ ret' = ToHTTPJSONOf(errs[i])
    /\ op' = Call("ToHTTPJSON", i, <<>>)
    /\ UNCHANGED <<errs, reasons, plains, DefaultConverter>>

\* A ToHTTP that writes the status line before it sets the header.
ToHTTPCalls_StatusFirst(e) ==
    <<[call |-> "WriteHeader", statusCode |-> e.HTTPCode],
      [call |-> "Header().Set", key |-> "Content-Type", value |-> "application/json"],
      [call |-> "Write",
       doc |-> Marshal(HTTPError(GetCode(e), GetMessage(e), GetUserReason(e),
                                 e.Metadata)),
       trailer |-> "\n"]>>

\* The calls (*StructuredError).ToHTTP makes on the ResponseWriter, in order.
\* Encoder.Encode hands the writer the document followed by a newline in one
\* Write.
ToHTTPCalls(e) ==
    <<[call |-> "Header().Set", key |-> "Content-Type", value |-> "application/json"],
      [call |-> "WriteHeader", statusCode |-> e.HTTPCode],
      [call |-> "Write",
       doc |-> Marshal(HTTPError(GetCode(e), GetMessage(e), GetUserReason(e),
                                 e.Metadata)),
       trailer |-> "\n"]>>

\* ToHTTP(w); ret is what w was called with.
ToHTTP(i) ==
    /\ i \in 1..Len(errs)
    /\ ret' = ToHTTPCalls(errs[i])
    /\ op' = Call("ToHTTP", i, <<>>)
    /\ UNCHANGED <<errs, reasons, plains, DefaultConverter>>

\* A FromHTTPJSON that forgets the body's user-facing reason.
FromHTTPJSONOf_DropsReason(httpErr, statusCode, rid) ==
    [reason |-> NewDefaultReason(httpErr.Code, httpErr.Message),
     err |-> StructuredError(rid, httpToGRPCCode(statusCode), statusCode,
                             httpErr.Metadata, "", NilErr)]

\* The reason and the error FromHTTPJSON builds from a decoded body.
FromHTTPJSONOf(httpErr, statusCode, rid) ==
    LET r0 == NewDefaultReason(httpErr.Code, httpErr.Message)
    IN  [reason |-> IF httpErr.Reason # ""
                    THEN DefaultReasonWithReason(r0, httpErr.Reason) ELSE r0,
         err |-> StructuredError(rid, httpToGRPCCode(statusCode), statusCode,
                                 httpErr.Metadata, "", NilErr)]

\* FromHTTPJSON(jsonBytes, statusCode).  op.recv names the error the body was made
\* from, when it is what the preceding ToHTTPJSON returned.
FromHTTPJSON(jsonBytes, statusCode) ==
    /\ op' = Call("FromHTTPJSON",
                  IF op.name = "ToHTTPJSON"
                     /\ ret = [jsonBytes |-> jsonBytes, status |-> statusCode]
                  THEN op.recv ELSE 0,
                  [jsonBytes |-> jsonBytes, statusCode |-> statusCode])
    /\ LET dec == Unmarshal(jsonBytes)
       IN  IF dec.err
           THEN /\ ret' = [error |-> NilErr, err |-> TRUE]
                /\ UNCHANGED <<errs, reasons, plains, DefaultConverter>>
           ELSE LET new == FromHTTPJSONOf(dec.httpErr, statusCode, Len(reasons) + 1)
                IN  /\ Len(errs) < MaxErrs
                    /\ Len(reasons) < MaxReasons
                    /\ reasons' = Append(reasons, new.reason)
                    /\ errs' = Append(errs, new.err)
                    /\ ret' = [error |-> SE(Len(errs) + 1), err |-> FALSE]
                    /\ UNCHANGED <<plains, DefaultConverter>>

\* --------------------------------------------------------------- SpecHTTP
\* One error, written as an HTTP JSON body and read back.

NextHTTP ==
    \/ \E i \in 1..Len(errs) : ToHTTPJSON(i)
    \/ \E i \in 1..Len(errs) : ToHTTP(i)
    \/ /\ op.name = "ToHTTPJSON"
       /\ FromHTTPJSON(ret.jsonBytes, ret.status)

SpecHTTP == InitOneError /\ [][NextHTTP]_vars

\* ------------------------------------------------------------ detail codec

\* A WithMetadata that keeps the value a key already has.
WithMetadataOf_KeepsFirst(e, key, value) ==
    IF key \in DOMAIN e.Metadata.m
    THEN e
    ELSE [e EXCEPT !.Metadata = MapPut(@, key, value)]

\* WithMetadata(key, value) on errs[i].
WithMetadataOf(e, key, value) == [e EXCEPT !.Metadata = MapPut(@, key, value)]

WithMetadata(i, key, value) ==
    /\ i \in 1..Len(errs)
    /\ errs' = [errs EXCEPT ![i] = WithMetadataOf(@, key, value)]
    /\ ret' = SE(i)
    /\ op' = Call("WithMetadata", i, [key |-> key, value |-> value])
    /\ UNCHANGED <<reasons, plains, DefaultConverter>>

\* WithErrorInfo(domain, metadata): a non-nil metadata is copied into e.Metadata;
\* the domain is not stored.
WithErrorInfoOf(e, domain, metadata) ==
    IF metadata.nil THEN e
    ELSE [e EXCEPT !.Metadata = MapCopyInto(@, metadata)]

WithErrorInfo(i, domain, metadata) ==
    /\ i \in 1..Len(errs)
    /\ errs' = [errs EXCEPT ![i] = WithErrorInfoOf(@, domain, metadata)]
    /\ ret' = SE(i)
    /\ op' = Call("WithErrorInfo", i, [domain |-> domain, metadata |-> metadata])
    /\ UNCHANGED <<reasons, plains, DefaultConverter>>

GetErrorInfoOf(e) == ErrorInfo(GetCode(e), DefaultDomain, e.Metadata)

GetErrorInfo(i) ==
    /\ i \in 1..Len(errs)
    /\ ret' = GetErrorInfoOf(errs[i])
    /\ op' = Call("GetErrorInfo", i, <<>>)
    /\ UNCHANGED <<errs, reasons, plains, DefaultConverter>>

\* for name, description := range m { e.Metadata[prefix+name] = description }
FoldInto(e, prefix, m) ==
    IF m.nil THEN e
    ELSE [e EXCEPT !.Metadata =
            MapCopyInto(@, MapOf([k \in {prefix \o n : n \in DOMAIN m.m} |->
                                     m.m[CHOOSE n \in DOMAIN m.m : prefix \o n = k]]))]

WithBadRequestOf(e, fieldViolations) == FoldInto(e, "field:", fieldViolations)

WithBadRequest(i, fieldViolations) ==
    /\ i \in 1..Len(errs)
    /\ errs' = [errs EXCEPT ![i] = WithBadRequestOf(@, fieldViolations)]
    /\ ret' = SE(i)
    /\ op' = Call("WithBadRequest", i, fieldViolations)
    /\ UNCHANGED <<reasons, plains, DefaultConverter>>

WithPreconditionFailureOf(e, violations) == FoldInto(e, "precondition:", violations)

WithPreconditionFailure(i, violations) ==
    /\ i \in 1..Len(errs)
    /\ errs' = [errs EXCEPT ![i] = WithPreconditionFailureOf(@, violations)]
    /\ ret' = SE(i)
    /\ op' = Call("WithPreconditionFailure", i, violations)
    /\ UNCHANGED <<reasons, plains, DefaultConverter>>

\* The keys the unfolding loops take: len(k) > n && k[:n] == prefix.
KeyMatches(k, prefix) ==
    Len(k) > Len(prefix) /\ SubSeq(k, 1, Len(prefix)) = prefix
StripPrefix(k, prefix) == SubSeq(k, Len(prefix) + 1, Len(k))

\* A *errdetails.BadRequest, or nil.  A Go map is ranged over in no fixed order, so
\* the violations are kept as the set of records the slice holds.
NilBadRequest == [nil |-> TRUE, FieldViolations |-> {}]
GetBadRequestOf(e) ==
    IF e.Metadata.nil THEN NilBadRequest
    ELSE LET fieldViolations ==
                 {[Field |-> StripPrefix(k, "field:"), Description |-> e.Metadata.m[k]] :
                     k \in {x \in DOMAIN e.Metadata.m : KeyMatches(x, "field:")}}
         IN  IF Cardinality(fieldViolations) = 0 THEN NilBadRequest
             ELSE [nil |-> FALSE, FieldViolations |-> fieldViolations]

GetBadRequest(i) ==
    /\ i \in 1..Len(errs)
    /\ ret' = GetBadRequestOf(errs[i])
    /\ op' = Call("GetBadRequest", i, <<>>)
    /\ UNCHANGED <<errs, reasons, plains, DefaultConverter>>

NilPreconditionFailure == [nil |-> TRUE, Violations |-> {}]
GetPreconditionFailureOf(e) ==
    IF e.Metadata.nil THEN NilPreconditionFailure
    ELSE LET violations ==
                 {[Type |-> "PRECONDITION_FAILURE",
                   Subject |-> StripPrefix(k, "precondition:"),
                   Description |-> e.Metadata.m[k]] :
                     k \in {x \in DOMAIN e.Metadata.m : KeyMatches(x, "precondition:")}}
         IN  IF Cardinality(violations) = 0 THEN NilPreconditionFailure
             ELSE [nil |-> FALSE, Violations |-> violations]

GetPreconditionFailure(i) ==
    /\ i \in 1..Len(errs)
    /\ ret' = GetPreconditionFailureOf(errs[i])
    /\ op' = Call("GetPreconditionFailure", i, <<>>)
    /\ UNCHANGED <<errs, reasons, plains, DefaultConverter>>

\* ------------------------------------------------------------- SpecDetail
\* One error whose metadata is written by WithMetadata, WithErrorInfo and the two
\* folds, and read back by the unfolds.

MetadataKeyInputs == {"k", "field", "field:", "field:email", "precondition:stock"}
MetadataValueInputs == {"v", "bad format"}
ErrorInfoInputs == {NilMap, MakeMap, MapOf([k \in {"k"} |-> "w"])}
FieldViolationInputs ==
    {NilMap, MakeMap,
     MapOf([k \in {"email"} |-> "bad format"]),
     MapOf([k \in {"email", "age"} |->
               IF k = "email" THEN "bad format" ELSE "too young"]),
     MapOf([k \in {""} |-> "required"])}
PreconditionInputs ==
    {NilMap,
     MapOf([k \in {"stock"} |-> "empty"]),
     MapOf([k \in {""} |-> "closed"])}

InitDetail ==
    /\ DefaultConverter = BuiltInConverter
    /\ plains = <<>>
    /\ op = NoOp
    /\ ret = NilErr
    /\ reasons = <<NewDefaultReason("CODE", "msg")>>
    /\ \E md \in {NilMap, MakeMap} :
         errs = <<StructuredError(1, "Unknown", 500, md, "", NilErr)>>

NextDetail ==
    \/ \E i \in 1..Len(errs), k \in MetadataKeyInputs, v \in MetadataValueInputs :
         WithMetadata(i, k, v)
    \/ \E i \in 1..Len(errs), d \in DomainInputs, md \in ErrorInfoInputs :
         WithErrorInfo(i, d, md)
    \/ \E i \in 1..Len(errs), fv \in FieldViolationInputs : WithBadRequest(i, fv)
    \/ \E i \in 1..Len(errs), v \in PreconditionInputs : WithPreconditionFailure(i, v)
    \/ \E i \in 1..Len(errs) : GetErrorInfo(i)
    \/ \E i \in 1..Len(errs) : GetBadRequest(i)
    \/ \E i \in 1..Len(errs) : GetPreconditionFailure(i)

SpecDetail == InitDetail /\ [][NextDetail]_vars

\* ---------------------------------------------------------------- SpecStd
\* Errors made by NewStandardError, for registered and unregistered codes.

UnregisteredCodeInputs == {"PAYMENT_FAILED", "not_found", ""}
InitEmpty ==
    /\ errs = <<>>
    /\ reasons = <<>>
    /\ DefaultConverter = BuiltInConverter
    /\ plains = <<>>
    /\ op = NoOp
    /\ ret = NilErr

NextStd ==
    \E c \in (DOMAIN StandardErrorMapping) \cup UnregisteredCodeInputs,
       m \in MessageInputs : NewStandardError(c, m)

SpecStd == InitEmpty /\ [][NextStd]_vars

\* ------------------------------------------------------------ error chains

\* (*StructuredError).Error()
ErrorOfStructured(e) ==
    IF e.reason = 0
    THEN "unknown error"
    ELSE "[" \o reasons[e.reason].code \o "] " \o reasons[e.reason].message

\* An Error() that gives the text of the outermost error only.
ErrorText_Outermost(err) ==
    IF err.kind = "se" THEN ErrorOfStructured(errs[err.id])
    ELSE plains[err.id].text

\* err.Error() of any non-nil error.
RECURSIVE ErrorText(_)
ErrorText(err) ==
    IF err.kind = "se" THEN ErrorOfStructured(errs[err.id])
    ELSE IF plains[err.id].wraps = NilErr THEN plains[err.id].text
    ELSE plains[err.id].text \o ": " \o ErrorText(plains[err.id].wraps)

\* A type assertion on err itself, which does not follow Unwrap.
As_HeadOnly(err) == IF err.kind = "se" THEN err.id ELSE 0

\* errors.As(err, &se) with se a *StructuredError: the first StructuredError of
\* err's chain, 0 when there is none.
RECURSIVE As(_)
As(err) ==
    IF err.kind = "nil" THEN 0
    ELSE IF err.kind = "se" THEN err.id
    ELSE As(plains[err.id].wraps)

\* A Wrap that puts a new StructuredError around one it is given.
WrapOf_DoubleWraps(err, code) ==
    [reasons |-> Append(reasons, NewDefaultReason(code, ErrorText(err))),
     errs |-> Append(errs, StructuredError(Len(reasons) + 1, "Unknown", 500,
                                           NilMap, "", err)),
     ret |-> SE(Len(errs) + 1)]

\* A Wrap that gives a StructuredError the codes the registry has for the code.
WrapOf_RederivesCodes(err, code) ==
    IF As(err) # 0
    THEN [reasons |-> Append(reasons,
                             NewDefaultReason(code, GetMessage(errs[As(err)]))),
          errs |-> [errs EXCEPT ![As(err)].reason = Len(reasons) + 1,
                                ![As(err)].GRPCCode = StandardMappingOf(code).GRPCCode,
                                ![As(err)].HTTPCode = StandardMappingOf(code).HTTPCode],
          ret |-> SE(As(err))]
    ELSE [reasons |-> Append(reasons, NewDefaultReason(code, ErrorText(err))),
          errs |-> Append(errs, StructuredError(Len(reasons) + 1, "Unknown", 500,
                                                NilMap, "", err)),
          ret |-> SE(Len(errs) + 1)]

\* The heap and the value after Wrap(err, code), err not nil.
WrapOf(err, code) ==
    IF As(err) # 0
    THEN [reasons |-> Append(reasons,
                             NewDefaultReason(code, GetMessage(errs[As(err)]))),
          errs |-> [errs EXCEPT ![As(err)].reason = Len(reasons) + 1],
          ret |-> SE(As(err))]
    ELSE [reasons |-> Append(reasons, NewDefaultReason(code, ErrorText(err))),
          errs |-> Append(errs, StructuredError(Len(reasons) + 1, "Unknown", 500,
                                                NilMap, "", err)),
          ret |-> SE(Len(errs) + 1)]

\* Wrap(err, code)
Wrap(err, code) ==
    /\ IF err = NilErr
       THEN /\ ret' = NilErr
            /\ UNCHANGED <<errs, reasons>>
       ELSE /\ Len(reasons) < MaxReasons
            /\ Len(WrapOf(err, code).errs) <= MaxErrs
            /\ reasons' = WrapOf(err, code).reasons
            /\ errs' = WrapOf(err, code).errs
            /\ ret' = WrapOf(err, code).ret
    /\ op' = Call("Wrap", 0, [err |-> err, code |-> code])
    /\ UNCHANGED <<plains, DefaultConverter>>

\* The heap and the value after WrapWithReason(err, reason), err not nil; rid is
\* the place of the reason object in rs, 0 for the nil Reason.
WrapWithReasonOf(err, rid, rs) ==
    IF As(err) # 0
    THEN [reasons |-> rs,
          errs |-> [errs EXCEPT ![As(err)].reason = rid],
          ret |-> SE(As(err))]
    ELSE [reasons |-> rs,
          errs |-> Append(errs, StructuredError(rid, "Unknown", 500, NilMap, "", err)),
          ret |-> SE(Len(errs) + 1)]

\* A WrapWithReason without the nil check: nil is wrapped like any other error.
WrapWithReason_WrapsNil(err, rid) ==
    /\ rid \in 0..Len(reasons)
    /\ Len(WrapWithReasonOf(err, rid, reasons).errs) <= MaxErrs
    /\ errs' = WrapWithReasonOf(err, rid, reasons).errs
    /\ ret' = WrapWithReasonOf(err, rid, reasons).ret
    /\ op' = Call("WrapWithReason", 0, [err |-> err, reason |-> rid])
    /\ UNCHANGED <<reasons, plains, DefaultConverter>>

\* WrapWithReason(err, reason), reason being nil or a Reason the caller holds.
WrapWithReason(err, rid) ==
    /\ rid \in 0..Len(reasons)
    /\ IF err = NilErr
       THEN /\ ret' = NilErr
            /\ UNCHANGED <<errs, reasons>>
       ELSE /\ Len(WrapWithReasonOf(err, rid, reasons).errs) <= MaxErrs
            /\ errs' = WrapWithReasonOf(err, rid, reasons).errs
            /\ ret' = WrapWithReasonOf(err, rid, reasons).ret
            /\ UNCHANGED reasons
    /\ op' = Call("WrapWithReason", 0, [err |-> err, reason |-> rid])
    /\ UNCHANGED <<plains, DefaultConverter>>

\* WrapDefault(err): WrapWithReason with a new default reason
\* ("UNKNOWN", err.Error()).
WrapDefault(err) ==
    /\ IF err = NilErr
       THEN /\ ret' = NilErr
            /\ UNCHANGED <<errs, reasons>>
       ELSE LET rs == Append(reasons, NewDefaultReason("UNKNOWN", ErrorText(err)))
                w == WrapWithReasonOf(err, Len(rs), rs)
            IN  /\ Len(reasons) < MaxReasons
                /\ Len(w.errs) <= MaxErrs
                /\ reasons' = w.reasons
                /\ errs' = w.errs
                /\ ret' = w.ret
    /\ op' = Call("WrapDefault", 0, [err |-> err])
    /\ UNCHANGED <<plains, DefaultConverter>>

\* A comparison that also looks at the message.
IsOf_ComparesMessage(e, target) ==
    /\ target.kind = "se"
    /\ GetCode(e) = GetCode(errs[target.id])
    /\ GetMessage(e) = GetMessage(errs[target.id])

\* e.Is(target): target is a *StructuredError with e's code.
IsOf(e, target) ==
    /\ target.kind = "se"
    /\ GetCode(e) = GetCode(errs[target.id])

\* (*StructuredError).Is(target)
Is(i, target) ==
    /\ i \in 1..Len(errs)
    /\ ret' = IsOf(errs[i], target)
    /\ op' = Call("Is", i, [target |-> target])
    /\ UNCHANGED <<errs, reasons, plains, DefaultConverter>>

\* ------------------------------------------------------------------- Spec
\* Errors of an application, wrapped and compared.  The heap holds one or two
\* StructuredErrors, an error made by errors.New and errors made by
\* fmt.Errorf("...: %w", e) around the first StructuredError, around the
\* errors.New error and around the wrapper of the first StructuredError.

ReasonOptions ==
    {NewDefaultReason("X", "m1"),
     DefaultReasonWithReason(NewDefaultReason("X", "m2"), "try again"),
     NewDefaultReason("Y", "m1"),
     CustomReason("X", "m1", "")}
CodePairOptions ==
    {[GRPCCode |-> "Unknown", HTTPCode |-> 500],
     [GRPCCode |-> "NotFound", HTTPCode |-> 404]}
MetadataOptions == {NilMap, MapOf([k \in {"k"} |-> "v"])}
CauseOptions == {NilErr, Plain(1)}
\* The StructuredErrors whose reason is the object at place r of the heap, or
\* nil after WithCustomReason(nil), the reason left behind being then the first
\* option.
ErrorOptions(r, reason) ==
    {StructuredError(rid, cp.GRPCCode, cp.HTTPCode, md, "", cause) :
        rid \in IF reason = NewDefaultReason("X", "m1") THEN {0, r} ELSE {r},
        cp \in CodePairOptions, md \in MetadataOptions, cause \in CauseOptions}

Init ==
    /\ DefaultConverter = BuiltInConverter
    /\ plains = <<[text |-> "db down", wraps |-> NilErr],
                  [text |-> "op failed", wraps |-> SE(1)],
                  [text |-> "query failed", wraps |-> Plain(1)],
                  [text |-> "handler failed", wraps |-> Plain(2)]>>
    /\ op = NoOp
    /\ ret = NilErr
    /\ \/ \E r1 \in ReasonOptions : \E e1 \in ErrorOptions(1, r1) :
            /\ reasons = <<r1>>
            /\ errs = <<e1>>
       \/ \E r1 \in ReasonOptions, r2 \in ReasonOptions :
            \E e1 \in ErrorOptions(1, r1), e2 \in ErrorOptions(2, r2) :
                /\ reasons = <<r1, r2>>
                /\ errs = <<e1, e2>>

Refs ==
    {NilErr} \cup {SE(i) : i \in 1..Len(errs)} \cup {Plain(i) : i \in 1..Len(plains)}

Next ==
    \/ \E err \in Refs : Wrap(err, "NEW_CODE")
    \/ \E i \in 1..Len(errs), target \in Refs : Is(i, target)

Spec == Init /\ [][Next]_vars

\* --------------------------------------------------------------- SpecWrap
\* One call of a function that makes a StructuredError out of another value (an
\* error or a gRPC status), on nil and non-nil values, in a heap drawn as in Init.

StatusInputs == {NilStatus, StatusNew("NotFound", "gone")}
\* No call has been made yet.
FirstCall == op = NoOp

NextWrap ==
    \/ \E err \in Refs, code \in {"NEW_CODE", "NOT_FOUND"} :
          FirstCall /\ Wrap(err, code)
    \/ \E err \in Refs : FirstCall /\ WrapDefault(err)
    \/ \E err \in Refs, rid \in 0..Len(reasons) : FirstCall /\ WrapWithReason(err, rid)
    \/ \E st \in StatusInputs : FirstCall /\ FromGRPCStatus(st)

SpecWrap == Init /\ [][NextWrap]_vars

\* ------------------------------------------------------------- SpecStatus
\* Statuses received from a peer, with any details, converted by FromGRPCStatus.

\* A detail of a kind FromGRPCStatus has no case for.
BadRequestDetail == [type |-> "BadRequest", FieldViolations |-> {<<"email", "bad format">>}]
DetailInputs ==
    {ErrorInfo("CODE", "service.domain", MapOf([k \in {"k"} |-> "v"])),
     ErrorInfo("OTHER", "", MapOf([k \in {"k", "j"} |-> "w"])),
     LocalizedMessage("en-US", "try again"),
     BadRequestDetail}
DetailListInputs ==
    {<<>>} \cup {<<d>> : d \in DetailInputs}
           \cup {<<d1, d2>> : d1 \in DetailInputs, d2 \in DetailInputs}
ReceivedStatusInputs ==
    {NilStatus} \cup
    {[StatusNew(c, "gone") EXCEPT !.details = ds] :
        c \in {"NotFound", "Unavailable", OtherGRPCCode}, ds \in DetailListInputs}

NextStatus == \E st \in ReceivedStatusInputs : FromGRPCStatus(st)

SpecStatus == InitEmpty /\ [][NextStatus]_vars

\* ---------------------------------------------------------- HTTP responses

\* The reason and the error NewWithHTTPAndGRPC builds; rid is the place the new
\* reason gets in the heap.
NewWithHTTPAndGRPCOf(code, message, httpCode, grpcCode, rid) ==
    [reason |-> NewDefaultReason(code, message),
     err |-> StructuredError(rid, grpcCode, httpCode, NilMap, "", NilErr)]

\* New(code, message)
NewOf(code, message, rid) == NewWithHTTPAndGRPCOf(code, message, 500, "Unknown", rid)

\* What (*StructuredError).ToHTTP writes to the ResponseWriter for e, whose
\* reason is read in the heap rs: a header, the status and the encoded body.
ToHTTPOf(e, rs) ==
    [contentType |-> "application/json",
     status |-> e.HTTPCode,
     body |-> Marshal(HTTPError(
                  IF e.reason = 0 THEN "" ELSE rs[e.reason].code,
                  IF e.reason = 0 THEN "" ELSE rs[e.reason].message,
                  IF e.reason = 0 THEN "" ELSE rs[e.reason].reason,
                  e.Metadata))]

\* WriteHTTPError(w, code, message, httpCode); ret is what w received.
WriteHTTPError(code, message, httpCode) ==
    LET new == NewWithHTTPAndGRPCOf(code, message, httpCode,
                                    httpToGRPCCode(httpCode), Len(reasons) + 1)
    IN  /\ CanAllocate
        /\ reasons' = Append(reasons, new.reason)
        /\ errs' = Append(errs, new.err)
        /\ ret' = ToHTTPOf(new.err, reasons')
        /\ op' = Call("WriteHTTPError", 0,
                      [code |-> code, message |-> message, httpCode |-> httpCode])
        /\ UNCHANGED <<plains, DefaultConverter>>

\* WriteStandardHTTPError(w, code, message); ret is what w received.  New returns
\* a *StructuredError, so the fallback branch is never taken.
WriteStandardHTTPError(code, message) ==
    LET new == NewOf(code, message, Len(reasons) + 1)
    IN  /\ CanAllocate
        /\ reasons' = Append(reasons, new.reason)
        /\ errs' = Append(errs, new.err)
        /\ ret' = ToHTTPOf(new.err, reasons')
        /\ op' = Call("WriteStandardHTTPError", 0, [code |-> code, message |-> message])
        /\ UNCHANGED <<plains, DefaultConverter>>

\* -------------------------------------------------------------- SpecWrite
\* Errors written to HTTP responses by the two convenience functions.

NextWrite ==
    \/ \E c \in (DOMAIN StandardErrorMapping) \cup UnregisteredCodeInputs :
          WriteStandardHTTPError(c, "msg")
    \/ \E c \in {"NOT_FOUND", "PAYMENT_FAILED"}, h \in {200, 404, 418, 500, 502} :
          WriteHTTPError(c, "msg", h)

SpecWrite == InitEmpty /\ [][NextWrite]_vars

\* --------------------------------------------------------------- SpecBody
\* Response bodies received from a peer, well-formed or not, read by FromHTTPJSON.

BodyMembers(fields) ==
    [f \in fields |->
        CASE f = "code" -> JSONString("NOT_FOUND")
          [] f = "message" -> JSONString("gone")
          [] f = "reason" -> JSONString("try again")
          [] f = "metadata" -> JSONStringMap([k \in {"k"} |-> "v"])]
BodyInputs ==
    {NotJSON}
    \cup {JSONObject(BodyMembers(fields)) :
             fields \in SUBSET {"code", "message", "reason", "metadata"}}
    \cup {JSONObject([BodyMembers({"code", "message", "reason", "metadata"})
                         EXCEPT ![f] = JSONNumber]) :
             f \in {"code", "message", "reason", "metadata"}}
    \cup {JSONObject([BodyMembers({"code", "message", "metadata"})
                         EXCEPT !["metadata"] = JSONString("k=v")])}

NextBody == \E body \in BodyInputs, statusCode \in HTTPInputs : FromHTTPJSON(body, statusCode)

SpecBody == InitEmpty /\ [][NextBody]_vars

\* --------------------------------------------------------------- SpecConv
\* The package's converter replaced by the caller, and the conversions that are
\* documented to use it.

\* (c CodeConverter).HTTPToGRPC(httpCode)
HTTPToGRPC(c, httpCode) ==
    IF c = BuiltInConverter THEN httpToGRPCCode(httpCode) ELSE "Internal"

\* (c CodeConverter).GRPCToHTTP(code)
GRPCToHTTP(c, code) ==
    IF c = BuiltInConverter THEN grpcToHTTPCode(code) ELSE 418

\* xerr.DefaultConverter = c
SetDefaultConverter(c) ==
    /\ DefaultConverter' = c
    /\ ret' = NilErr
    /\ op' = Call("SetDefaultConverter", 0, [converter |-> c])
    /\ UNCHANGED <<errs, reasons, plains>>

NextConv ==
    \/ \E c \in {BuiltInConverter, CallerConverter} : SetDefaultConverter(c)
    \/ \E h \in {200, 404, 418} :
          FromHTTPJSON(JSONObject(BodyMembers({"code", "message"})), h)
    \/ \E h \in {404, 502} : WriteHTTPError("NOT_FOUND", "msg", h)
    \/ \E c \in {"NotFound", OtherGRPCCode} : FromGRPCStatus(StatusNew(c, "gone"))

SpecConv == InitEmpty /\ [][NextConv]_vars

\* -------------------------------------------------------------- SpecCodes
\* The two code tables, applied to codes of every class.

\* An int: the statuses around the HTTP range and values far outside it.
HTTPCodeInputs == (-1)..600 \cup {-2147483647, 2147483647}

\* httpToGRPCCode(httpCode)
ConvertHTTPCode(httpCode) ==
    /\ ret' = httpToGRPCCode(httpCode)
    /\ op' = Call("httpToGRPCCode", 0, httpCode)
    /\ UNCHANGED <<errs, reasons, plains, DefaultConverter>>

\* grpcToHTTPCode(code)
ConvertGRPCCode(code) ==
    /\ ret' = grpcToHTTPCode(code)
    /\ op' = Call("grpcToHTTPCode", 0, code)
    /\ UNCHANGED <<errs, reasons, plains, DefaultConverter>>

\* grpcToHTTPCode(httpToGRPCCode(httpCode)): a status read by FromHTTPJSON
\* and written again after a gRPC hop.
HTTPThroughGRPC(httpCode) ==
    /\ ret' = [via |-> httpToGRPCCode(httpCode),
               back |-> grpcToHTTPCode(httpToGRPCCode(httpCode))]
    /\ op' = Call("grpcToHTTPCode.httpToGRPCCode", 0, httpCode)
    /\ UNCHANGED <<errs, reasons, plains, DefaultConverter>>

\* httpToGRPCCode(grpcToHTTPCode(code)): a code read by FromGRPCStatus and
\* read again after an HTTP hop.
GRPCThroughHTTP(code) ==
    /\ ret' = [via |-> grpcToHTTPCode(code),
               back |-> httpToGRPCCode(grpcToHTTPCode(code))]
    /\ op' = Call("httpToGRPCCode.grpcToHTTPCode", 0, code)
    /\ UNCHANGED <<errs, reasons, plains, DefaultConverter>>

NextCodes ==
    \/ \E h \in HTTPCodeInputs : ConvertHTTPCode(h)
    \/ \E c \in GRPCInputs : ConvertGRPCCode(c)
    \/ \E h \in HTTPCodeInputs : HTTPThroughGRPC(h)
    \/ \E c \in GRPCInputs : GRPCThroughHTTP(c)

SpecCodes == InitEmpty /\ [][NextCodes]_vars

\* --------------------------------------------------------------- SpecMeta
\* One error that starts without metadata, written with WithMetadata and read by
\* every operation that looks at an error.

\* (*StructuredError).GetMetadata()
GetMetadataCall(i) ==
    /\ i \in 1..Len(errs)
    /\ ret' = GetMetadata(errs[i])
    /\ op' = Call("GetMetadata", i, <<>>)
    /\ UNCHANGED <<errs, reasons, plains, DefaultConverter>>

\* (*StructuredError).Error()
Error(i) ==
    /\ i \in 1..Len(errs)
    /\ ret' = ErrorOfStructured(errs[i])
    /\ op' = Call("Error", i, <<>>)
    /\ UNCHANGED <<errs, reasons, plains, DefaultConverter>>

InitMeta ==
    /\ DefaultConverter = BuiltInConverter
    /\ plains = <<>>
    /\ op = NoOp
    /\ ret = NilErr
    /\ \E text \in {"", "try again"} :
          reasons = <<DefaultReasonWithReason(NewDefaultReason("CODE", "msg"), text)>>
    /\ errs = <<StructuredError(1, "NotFound", 404, NilMap, "", NilErr)>>

MetaKeyInputs == {"k", "j", "field:email"}
MetaValueInputs == {"v", "w"}

NextMeta ==
    \/ \E i \in 1..Len(errs), k \in MetaKeyInputs, v \in MetaValueInputs :
          WithMetadata(i, k, v)
    \/ \E i \in 1..Len(errs) : GetMetadataCall(i)
    \/ \E i \in 1..Len(errs) : GetErrorInfo(i)
    \/ \E i \in 1..Len(errs) : GetBadRequest(i)
    \/ \E i \in 1..Len(errs) : GetPreconditionFailure(i)
    \/ \E i \in 1..Len(errs) : ToHTTPJSON(i)
    \/ \E i \in 1..Len(errs) : ToGRPCStatus(i)
    \/ \E i \in 1..Len(errs), target \in Refs : Is(i, target)
    \/ \E i \in 1..Len(errs) : Error(i)

SpecMeta == InitMeta /\ [][NextMeta]_vars

\* --------------------------------------------------------------- SpecPure
\* One error that is only read and converted; the statuses and bodies it
\* produces are read back into new errors.

\* A Get* accessor returning value for error i.
Accessor(name, i, value) ==
    /\ i \in 1..Len(errs)
    /\ ret' = value
    /\ op' = Call(name, i, <<>>)
    /\ UNCHANGED <<errs, reasons, plains, DefaultConverter>>

GetReasonCall(i) == Accessor("GetReason", i, errs[i].reason)
GetCodeCall(i) == Accessor("GetCode", i, GetCode(errs[i]))
GetMessageCall(i) == Accessor("GetMessage", i, GetMessage(errs[i]))
GetUserReasonCall(i) == Accessor("GetUserReason", i, GetUserReason(errs[i]))
GetGRPCCodeCall(i) == Accessor("GetGRPCCode", i, errs[i].GRPCCode)
GetHTTPCodeCall(i) == Accessor("GetHTTPCode", i, errs[i].HTTPCode)
GetCauseCall(i) == Accessor("GetCause", i, GetCause(errs[i]))

InitPure ==
    /\ DefaultConverter = BuiltInConverter
    /\ plains = <<[text |-> "db down", wraps |-> NilErr]>>
    /\ op = NoOp
    /\ ret = NilErr
    /\ \E g \in {"NotFound", "OK"},
          md \in {NilMap, MakeMap,
                  MapOf([k \in {"k", "field:email", "precondition:quota"} |-> "v"])},
          cause \in {NilErr, Plain(1)} :
         \/ /\ reasons = <<>>
            /\ errs = <<StructuredError(0, g, 404, md, "", cause)>>
         \/ /\ reasons \in {<<DefaultReasonWithReason(NewDefaultReason("CODE", "msg"),
                                                      "try again")>>,
                            <<CustomReason("CODE", "msg", "")>>}
            /\ errs = <<StructuredError(1, g, 404, md, "", cause)>>

NextPure ==
    \/ \E i \in 1..Len(errs) : ToHTTPJSON(i)
    \/ \E i \in 1..Len(errs) : ToHTTP(i)
    \/ \E i \in 1..Len(errs) : ToGRPCStatus(i)
    \/ \E i \in 1..Len(errs) : GetErrorInfo(i)
    \/ \E i \in 1..Len(errs) : GetBadRequest(i)
    \/ \E i \in 1..Len(errs) : GetPreconditionFailure(i)
    \/ \E i \in 1..Len(errs), target \in {NilErr, SE(1), Plain(1)} : Is(i, target)
    \/ \E i \in 1..Len(errs) : Error(i)
    \/ \E i \in 1..Len(errs) : GetReasonCall(i)
    \/ \E i \in 1..Len(errs) : GetCodeCall(i)
    \/ \E i \in 1..Len(errs) : GetMessageCall(i)
    \/ \E i \in 1..Len(errs) : GetUserReasonCall(i)
    \/ \E i \in 1..Len(errs) : GetGRPCCodeCall(i)
    \/ \E i \in 1..Len(errs) : GetHTTPCodeCall(i)
    \/ \E i \in 1..Len(errs) : GetMetadataCall(i)
    \/ \E i \in 1..Len(errs) : GetCauseCall(i)
    \/ /\ op.name = "ToGRPCStatus"
       /\ FromGRPCStatus(ret)
    \/ /\ op.name = "ToHTTPJSON"
       /\ FromHTTPJSON(ret.jsonBytes, ret.status)

SpecPure == InitPure /\ [][NextPure]_vars

\* --------------------------------------------------------- fluent mutators

\* A WithReason that writes the text into whatever Reason the error holds.
WithReason_AlwaysInPlace(i, text) ==
    /\ i \in 1..Len(errs)
    /\ errs[i].reason # 0
    /\ reasons' = [reasons EXCEPT ![errs[i].reason].reason = text]
    /\ ret' = SE(i)
    /\ op' = Call("WithReason", i, [reason |-> text])
    /\ UNCHANGED <<errs, plains, DefaultConverter>>

\* A WithReason that never writes a Reason it was given: the error always gets
\* a new DefaultReason.
WithReason_AlwaysNew(i, text) ==
    /\ i \in 1..Len(errs)
    /\ Len(reasons) < MaxReasons
    /\ reasons' = Append(reasons,
           DefaultReasonWithReason(
               NewDefaultReason(GetCode(errs[i]), GetMessage(errs[i])), text))
    /\ errs' = [errs EXCEPT ![i].reason = Len(reasons) + 1]
    /\ ret' = SE(i)
    /\ op' = Call("WithReason", i, [reason |-> text])
    /\ UNCHANGED <<plains, DefaultConverter>>

\* (*StructuredError).WithReason(reason): a *DefaultReason is written in place;
\* for any other Reason, nil included, the error gets a new DefaultReason.
WithReason(i, text) ==
    /\ i \in 1..Len(errs)
    /\ IF errs[i].reason # 0 /\ reasons[errs[i].reason].kind = "default"
       THEN /\ reasons' = [reasons EXCEPT
                              ![errs[i].reason] = DefaultReasonWithReason(@, text)]
            /\ UNCHANGED errs
       ELSE /\ Len(reasons) < MaxReasons
            /\ reasons' = Append(reasons,
                   DefaultReasonWithReason(
                       NewDefaultReason(GetCode(errs[i]), GetMessage(errs[i])), text))
            /\ errs' = [errs EXCEPT ![i].reason = Len(reasons) + 1]
    /\ ret' = SE(i)
    /\ op' = Call("WithReason", i, [reason |-> text])
    /\ UNCHANGED <<plains, DefaultConverter>>

\* (*StructuredError).WithCustomReason(reason), reason being nil (0) or a Reason
\* the caller holds.
WithCustomReason(i, rid) ==
    /\ i \in 1..Len(errs)
    /\ rid \in 0..Len(reasons)
    /\ errs' = [errs EXCEPT ![i].reason = rid]
    /\ ret' = SE(i)
    /\ op' = Call("WithCustomReason", i, [reason |-> rid])
    /\ UNCHANGED <<reasons, plains, DefaultConverter>>

\* (*StructuredError).WithGRPCCode(code)
WithGRPCCode(i, code) ==
    /\ i \in 1..Len(errs)
    /\ errs' = [errs EXCEPT ![i].GRPCCode = code]
    /\ ret' = SE(i)
    /\ op' = Call("WithGRPCCode", i, [code |-> code])
    /\ UNCHANGED <<reasons, plains, DefaultConverter>>

\* A WithHTTPCode that derives the gRPC code from the HTTP code it is given.
WithHTTPCode_Coupled(i, code) ==
    /\ i \in 1..Len(errs)
    /\ errs' = [errs EXCEPT ![i].HTTPCode = code, ![i].GRPCCode = httpToGRPCCode(code)]
    /\ ret' = SE(i)
    /\ op' = Call("WithHTTPCode", i, [code |-> code])
    /\ UNCHANGED <<reasons, plains, DefaultConverter>>

\* (*StructuredError).WithHTTPCode(code)
WithHTTPCode(i, code) ==
    /\ i \in 1..Len(errs)
    /\ errs' = [errs EXCEPT ![i].HTTPCode = code]
    /\ ret' = SE(i)
    /\ op' = Call("WithHTTPCode", i, [code |-> code])
    /\ UNCHANGED <<reasons, plains, DefaultConverter>>

\* ---------------------------------------------------------------- SpecMut
\* Two errors; Reasons are installed in them with WithCustomReason and
\* WrapWithReason, and then one fluent mutator is called.

InitMut ==
    /\ DefaultConverter = BuiltInConverter
    /\ plains = <<[text |-> "db down", wraps |-> NilErr],
                  [text |-> "op failed", wraps |-> SE(1)]>>
    /\ op = NoOp
    /\ ret = NilErr
    /\ \E r2 \in {DefaultReasonWithReason(NewDefaultReason("Y", "m2"), "old"),
                  CustomReason("Y", "m2", "old")} :
          reasons = <<NewDefaultReason("X", "m1"), r2>>
    /\ \E md \in MetadataOptions, cause \in CauseOptions :
          errs = <<StructuredError(1, "Unknown", 500, md, "", cause),
                   StructuredError(2, "NotFound", 404, NilMap, "", NilErr)>>

\* Only Reasons have been installed so far.
Installing == op.name \in {"init", "WithCustomReason", "WrapWithReason"}

\* The codes of error i are being set, one call after the other.
SettingCodes(i) == op.name \in {"WithGRPCCode", "WithHTTPCode"} /\ op.recv = i

NextMut ==
    \/ \E i \in 1..Len(errs), rid \in 0..Len(reasons) :
          Installing /\ WithCustomReason(i, rid)
    \/ \E err \in Refs \ {NilErr}, rid \in 1..Len(reasons) :
          Installing /\ WrapWithReason(err, rid)
    \/ \E i \in 1..Len(errs) : Installing /\ WithReason(i, "try again")
    \/ \E i \in 1..Len(errs), code \in {"Internal", "Aborted"} :
          (Installing \/ SettingCodes(i)) /\ WithGRPCCode(i, code)
    \/ \E i \in 1..Len(errs), code \in {422, 409} :
          (Installing \/ SettingCodes(i)) /\ WithHTTPCode(i, code)
    \/ \E i \in 1..Len(errs) : Installing /\ WithMetadata(i, "j", "w")
    \/ \E i \in 1..Len(errs), md \in {NilMap, MapOf([k \in {"j"} |-> "w"])} :
          Installing /\ WithErrorInfo(i, "service.domain", md)
    \/ \E i \in 1..Len(errs) :
          Installing /\ WithBadRequest(i, MapOf([f \in {"email"} |-> "bad format"]))
    \/ \E i \in 1..Len(errs) :
          Installing /\ WithPreconditionFailure(i, MapOf([c \in {"quota"} |-> "exceeded"]))

SpecMut == InitMut /\ [][NextMut]_vars

\* ------------------------------------------------------------- SpecStdRPC
\* An error made by NewStandardError, changed or not by the fluent mutators,
\* converted to a gRPC status and back.

\* The error is being built: made, then mutated.
Building == op.name \in {"NewStandardError"} \cup
                        {"WithHTTPCode", "WithGRPCCode", "WithReason", "WithMetadata"}

NextStdRPC ==
    \/ \E c \in (DOMAIN StandardErrorMapping) \cup {"PAYMENT_FAILED"} :
          FirstCall /\ NewStandardError(c, "msg")
    \/ \E h \in {404, 418} : Building /\ WithHTTPCode(1, h)
    \/ \E g \in {"OK", OtherGRPCCode} : Building /\ WithGRPCCode(1, g)
    \/ Building /\ WithReason(1, "try again")
    \/ Building /\ WithMetadata(1, "k", "v")
    \/ Building /\ ToGRPCStatus(1)
    \/ /\ op.name = "ToGRPCStatus"
       /\ FromGRPCStatus(ret)

SpecStdRPC == InitEmpty /\ [][NextStdRPC]_vars

\* ================================================================== claims

\* The error a conversion started from, and the error a conversion returned.
Source == op.errs[op.recv]
Result == errs[ret.id]
HasDetail(st, type) == \E n \in 1..Len(st.details) : st.details[n].type = type
DetailOf(st, type) ==
    st.details[CHOOSE n \in 1..Len(st.details) : st.details[n].type = type]

\* C1: RPC round trip.  For every error e with non-empty metadata and a non-empty
\* user-facing reason, whatever its rpcCode, FromGRPCStatus(ToGRPCStatus(e)) is an
\* error with e's code, message and domain and with the same metadata pairs.
C1_RPCRoundTrip ==
    (/\ op.name = "FromGRPCStatus"
     /\ op.recv # 0
     /\ MapLen(Source.Metadata) > 0
     /\ GetUserReason(Source) # "")
    => /\ ret.kind = "se"
       /\ GetCode(Result) = GetCode(Source)
       /\ GetMessage(Result) = GetMessage(Source)
       /\ Result.Domain = Source.Domain
       /\ Pairs(Result.Metadata) = Pairs(Source.Metadata)

\* C3: ToGRPCStatus always returns a status (never nil) carrying e.GRPCCode and
\* e.GetMessage(); a detail that cannot be attached is dropped alone: if the other
\* detail is due and can be attached to the status, it is attached.
C3_StatusAlwaysReturned ==
    op.name = "ToGRPCStatus" =>
        LET e == errs[op.recv]
            msg == LocalizedMessage("en-US", GetUserReason(e))
            info == ErrorInfo(GetCode(e), DefaultDomain, e.Metadata)
        IN  /\ ~ret.nil
            /\ ret.code = e.GRPCCode
            /\ ret.message = GetMessage(e)
            /\ (GetUserReason(e) # "" /\ e.GRPCCode # "OK" /\ DetailMarshals(msg))
                 => HasDetail(ret, "LocalizedMessage")
            /\ (MapLen(e.Metadata) > 0 /\ e.GRPCCode # "OK" /\ DetailMarshals(info))
                 => HasDetail(ret, "ErrorInfo")

\* C4: ToGRPCStatus attaches an ErrorInfo detail {Reason = e.GetCode(), Domain,
\* Metadata = e.Metadata} exactly when e's metadata is non-empty or a domain is set
\* on e; its Domain is e's domain, or the package default when e has none.  Stated
\* for the statuses every detail can be attached to (a code other than OK, strings
\* that are valid UTF-8), where no attachment fails.
C4_ErrorInfoWhenMetadataOrDomain ==
    (/\ op.name = "ToGRPCStatus"
     /\ errs[op.recv].GRPCCode # "OK"
     /\ ValidUTF8(GetCode(errs[op.recv]))
     /\ ValidUTF8(GetUserReason(errs[op.recv]))
     /\ \A k \in DOMAIN errs[op.recv].Metadata.m :
            ValidUTF8(k) /\ ValidUTF8(errs[op.recv].Metadata.m[k]))
    => LET e == errs[op.recv]
       IN  /\ ~ret.nil
           /\ HasDetail(ret, "ErrorInfo") <=> (MapLen(e.Metadata) > 0 \/ e.Domain # "")
           /\ HasDetail(ret, "ErrorInfo") =>
                DetailOf(ret, "ErrorInfo") =
                    ErrorInfo(GetCode(e),
                              IF e.Domain # "" THEN e.Domain ELSE DefaultDomain,
                              e.Metadata)

\* C5: the domain given to WithErrorInfo(domain, metadata) is kept by the error:
\* afterwards GetErrorInfo().Domain is that domain and its metadata holds every
\* entry supplied, and FromGRPCStatus(ToGRPCStatus(e)).Domain is that domain, also
\* when the metadata supplied is nil and the error has no other metadata.
C5_WithErrorInfoKeepsDomain ==
    (op.name = "WithErrorInfo" /\ op.arg.domain # "") =>
        LET e == errs[op.recv]
            st == ToGRPCStatusOf(e)
        IN  /\ GetErrorInfoOf(e).Domain = op.arg.domain
            /\ \A k \in DOMAIN op.arg.metadata.m :
                   /\ k \in DOMAIN GetErrorInfoOf(e).Metadata
                   /\ GetErrorInfoOf(e).Metadata[k] = op.arg.metadata.m[k]
            /\ ~st.nil
            /\ FromGRPCStatusOf(st, 0).err.Domain = op.arg.domain

\* What the claims call a key with a prefix: its first Len(prefix) characters are
\* the prefix.
HasPrefix(k, prefix) ==
    Len(k) >= Len(prefix) /\ SubSeq(k, 1, Len(prefix)) = prefix

\* C7: fold/unfold round trip, for both detail kinds.  When the error's metadata
\* holds no key with the prefix and m is a non-empty map from names (any strings)
\* to descriptions, folding m and then unfolding returns exactly one record per
\* entry of m and no other record, whatever other keys the metadata holds.
C7_FoldUnfoldRoundTrip ==
    /\ (/\ op.name = "WithBadRequest"
        /\ MapLen(op.arg) > 0
        /\ \A k \in DOMAIN Source.Metadata.m : ~HasPrefix(k, "field:"))
       => LET got == GetBadRequestOf(errs[op.recv])
          IN  /\ ~got.nil
              /\ got.FieldViolations =
                   {[Field |-> n, Description |-> op.arg.m[n]] : n \in DOMAIN op.arg.m}
    /\ (/\ op.name = "WithPreconditionFailure"
        /\ MapLen(op.arg) > 0
        /\ \A k \in DOMAIN Source.Metadata.m : ~HasPrefix(k, "precondition:"))
       => LET got == GetPreconditionFailureOf(errs[op.recv])
          IN  /\ ~got.nil
              /\ got.Violations =
                   {[Type |-> "PRECONDITION_FAILURE", Subject |-> n,
                     Description |-> op.arg.m[n]] : n \in DOMAIN op.arg.m}

\* C8: the unfold matching rule.  GetBadRequest (GetPreconditionFailure) yields a
\* record for a metadata key exactly when the key's first 6 (13) characters are
\* "field:" ("precondition:"), however the key got there; shorter keys never
\* match; with no matching key the result is nil, never an empty list.
C8_UnfoldMatchesPrefix ==
    /\ op.name = "GetBadRequest" =>
         LET md == errs[op.recv].Metadata.m
             keys == {k \in DOMAIN md : HasPrefix(k, "field:")}
         IN  /\ ret.FieldViolations =
                  {[Field |-> StripPrefix(k, "field:"), Description |-> md[k]] : k \in keys}
             /\ ret.nil <=> keys = {}
    /\ op.name = "GetPreconditionFailure" =>
         LET md == errs[op.recv].Metadata.m
             keys == {k \in DOMAIN md : HasPrefix(k, "precondition:")}
         IN  /\ ret.Violations =
                  {[Type |-> "PRECONDITION_FAILURE",
                    Subject |-> StripPrefix(k, "precondition:"),
                    Description |-> md[k]] : k \in keys}
             /\ ret.nil <=> keys = {}

\* Every string of e that crosses the wire is valid UTF-8.
AllValidUTF8(e) ==
    /\ ValidUTF8(GetCode(e))
    /\ ValidUTF8(GetMessage(e))
    /\ ValidUTF8(GetUserReason(e))
    /\ \A k \in DOMAIN e.Metadata.m : ValidUTF8(k) /\ ValidUTF8(e.Metadata.m[k])

\* The error FromHTTPJSON returned has the code, message, user-facing reason and
\* metadata pairs of the error the body was made from, that error's httpCode, and
\* rpcCode = httpToGRPCCode(httpCode).
HTTPRoundTripPreserves ==
    /\ ~ret.err
    /\ ret.error.kind = "se"
    /\ LET got == errs[ret.error.id]
       IN  /\ GetCode(got) = GetCode(Source)
           /\ GetMessage(got) = GetMessage(Source)
           /\ GetUserReason(got) = GetUserReason(Source)
           /\ Pairs(got.Metadata) = Pairs(Source.Metadata)
           /\ got.HTTPCode = Source.HTTPCode
           /\ got.GRPCCode = httpToGRPCCode(Source.HTTPCode)

\* C2 as claimed: HTTP round trip for every StructuredError e.
C2_HTTPRoundTripEveryError ==
    (op.name = "FromHTTPJSON" /\ op.recv # 0) => HTTPRoundTripPreserves

\* C2, amended: HTTP round trip for every StructuredError e whose code, message,
\* user-facing reason and metadata keys and values are valid UTF-8:
\* FromHTTPJSON(ToHTTPJSON(e)) succeeds with the same code, message, reason and
\* metadata pairs (nil and empty alike), httpCode = e.httpCode and
\* rpcCode = httpToGRPCCode(e.httpCode), whatever e.rpcCode was.
C2_HTTPRoundTrip ==
    (op.name = "FromHTTPJSON" /\ op.recv # 0 /\ AllValidUTF8(Source))
    => HTTPRoundTripPreserves

\* A round trip of an error with a reason, metadata and an rpcCode that is not the
\* one its httpCode maps to.
C2_Witness ==
    /\ op.name = "FromHTTPJSON"
    /\ op.recv # 0
    /\ AllValidUTF8(Source)
    /\ GetUserReason(Source) # ""
    /\ MapLen(Source.Metadata) > 1
    /\ Source.GRPCCode # httpToGRPCCode(Source.HTTPCode)
    /\ ~ret.err
    /\ errs[ret.error.id].GRPCCode = "FailedPrecondition"

\* The registry as tabulated in the specification (section 6): code -> <<rpc, http>>.
RegistryTable ==
    {<<"UNKNOWN", "Unknown", 500>>, <<"INTERNAL", "Internal", 500>>,
     <<"UNAVAILABLE", "Unavailable", 503>>, <<"TIMEOUT", "DeadlineExceeded", 504>>,
     <<"CANCELLED", "Canceled", 499>>, <<"INVALID_ARGUMENT", "InvalidArgument", 400>>,
     <<"FAILED_PRECONDITION", "FailedPrecondition", 400>>,
     <<"OUT_OF_RANGE", "OutOfRange", 400>>,
     <<"UNAUTHENTICATED", "Unauthenticated", 401>>,
     <<"PERMISSION_DENIED", "PermissionDenied", 403>>,
     <<"NOT_FOUND", "NotFound", 404>>, <<"ALREADY_EXISTS", "AlreadyExists", 409>>,
     <<"RESOURCE_EXHAUSTED", "ResourceExhausted", 429>>, <<"ABORTED", "Aborted", 409>>,
     <<"DATA_LOSS", "DataLoss", 500>>, <<"DATA_VALIDATION", "InvalidArgument", 422>>,
     <<"BUSINESS_RULE", "FailedPrecondition", 422>>, <<"CONFLICT", "Aborted", 409>>}

\* C6: NewStandardError(code, message) is a registry lookup with an UNKNOWN
\* default: for each of the 18 registered codes the error has the tabulated
\* rpcCode and httpCode, for any other code it has Unknown and 500, and in both
\* cases its code and message are the arguments.
C6_NewStandardIsRegistryLookup ==
    op.name = "NewStandardError" =>
        LET e == errs[ret.id]
            rows == {r \in RegistryTable : r[1] = op.arg.code}
        IN  /\ Cardinality(RegistryTable) = 18
            /\ Cardinality(rows) <= 1
            /\ \A r \in rows : e.GRPCCode = r[2] /\ e.HTTPCode = r[3]
            /\ rows = {} => e.GRPCCode = "Unknown" /\ e.HTTPCode = 500
            /\ GetCode(e) = op.arg.code
            /\ GetMessage(e) = op.arg.message

\* Errors made for DATA_VALIDATION (InvalidArgument/422) and for an unregistered
\* code (Unknown/500).
C6_Witness ==
    /\ op.name = "NewStandardError"
    /\ Len(errs) = 2
    /\ GetCode(errs[1]) = "DATA_VALIDATION"
    /\ errs[1].GRPCCode = "InvalidArgument" /\ errs[1].HTTPCode = 422
    /\ GetCode(errs[2]) = "PAYMENT_FAILED"
    /\ errs[2].GRPCCode = "Unknown" /\ errs[2].HTTPCode = 500

\* The code of an error of the heap, read from its reason.
CodeIn(e, rs) == IF e.reason = 0 THEN "" ELSE rs[e.reason].code

\* C9: a.Is(b) is true exactly when b is a StructuredError and a.code = b.code;
\* for a target that is not a StructuredError (nil or another error type) it is
\* false; the call always returns a boolean.
C9_IsComparesCodeOnly ==
    op.name = "Is" =>
        /\ ret \in BOOLEAN
        /\ ret = (/\ op.arg.target.kind = "se"
                  /\ CodeIn(errs[op.recv], reasons)
                       = CodeIn(errs[op.arg.target.id], reasons))
        /\ op.arg.target.kind # "se" => ret = FALSE

\* Is answered TRUE for two distinct errors with the same code whose message,
\* user-facing reason, metadata, rpcCode, httpCode and cause all differ.
C9_Witness ==
    /\ op.name = "Is"
    /\ ret = TRUE
    /\ op.arg.target.kind = "se"
    /\ op.arg.target.id # op.recv
    /\ LET a == errs[op.recv]
           b == errs[op.arg.target.id]
       IN  /\ a.reason # 0 /\ b.reason # 0
           /\ reasons[a.reason].message # reasons[b.reason].message
           /\ reasons[a.reason].reason # reasons[b.reason].reason
           /\ Pairs(a.Metadata) # Pairs(b.Metadata)
           /\ a.GRPCCode # b.GRPCCode
           /\ a.HTTPCode # b.HTTPCode
           /\ a.Cause # b.Cause

\* C10: Wrap(e, newCode) on a StructuredError e returns e itself, adds no error
\* to the heap, gives it the code newCode, and leaves its metadata and its cause
\* as they were before the call.
C10_WrapStructuredInPlace ==
    (op.name = "Wrap" /\ op.arg.err.kind = "se") =>
        /\ ret = op.arg.err
        /\ Len(errs) = Len(op.errs)
        /\ CodeIn(errs[ret.id], reasons) = op.arg.code
        /\ errs[ret.id].Metadata = op.errs[ret.id].Metadata
        /\ errs[ret.id].Cause = op.errs[ret.id].Cause

\* Wrap was applied to a StructuredError that had another code, metadata and a
\* cause.
C10_Witness ==
    /\ op.name = "Wrap"
    /\ op.arg.err.kind = "se"
    /\ LET before == op.errs[op.arg.err.id]
       IN  /\ CodeIn(before, op.reasons) = "X"
           /\ MapLen(before.Metadata) > 0
           /\ before.Cause = Plain(1)
    /\ CodeIn(errs[op.arg.err.id], reasons) = "NEW_CODE"

\* C11: absence propagates.  Wrap(nil, code), WrapDefault(nil),
\* WrapWithReason(nil, reason) and FromGRPCStatus(nil) return nil, and the heap
\* holds the same errors and reasons as before: no error value is created.
C11_NilInNilOut ==
    (\/ /\ op.name \in {"Wrap", "WrapDefault", "WrapWithReason"}
        /\ op.arg.err = NilErr
     \/ /\ op.name = "FromGRPCStatus"
        /\ op.arg.nil)
    => /\ ret = NilErr
       /\ errs = op.errs
       /\ reasons = op.reasons

\* WrapWithReason was called with nil and a reason that is not nil.
C11_Witness ==
    /\ op.name = "WrapWithReason"
    /\ op.arg.err = NilErr
    /\ op.arg.reason # 0
    /\ ret = NilErr

\* C12: Wrap(err, code) for a non-nil err with no StructuredError in its chain
\* returns a new StructuredError with that code, message err.Error(), rpcCode
\* Unknown, httpCode 500, no metadata and cause err, so that Unwrap() and
\* GetCause() both return err; Unwrap() = GetCause() for every StructuredError,
\* and both are nil for an error that was not produced by wrapping.
C12_WrapPlainMakesNew ==
    /\ \A i \in 1..Len(errs) : Unwrap(errs[i]) = GetCause(errs[i])
    /\ (op.name = "Wrap" /\ op.arg.err \in {Plain(1), Plain(3)}) =>
          /\ ret = SE(Len(op.errs) + 1)
          /\ Len(errs) = Len(op.errs) + 1
          /\ \A i \in 1..Len(op.errs) : errs[i] = op.errs[i]
          /\ LET e == errs[ret.id]
             IN  /\ e.reason # 0
                 /\ reasons[e.reason].code = op.arg.code
                 /\ reasons[e.reason].message =
                        (IF op.arg.err = Plain(1) THEN "db down"
                                                  ELSE "query failed: db down")
                 /\ e.GRPCCode = "Unknown"
                 /\ e.HTTPCode = 500
                 /\ MapLen(e.Metadata) = 0
                 /\ Unwrap(e) = op.arg.err
                 /\ GetCause(e) = op.arg.err
    /\ (op.name = "FromGRPCStatus" /\ ret # NilErr) =>
          /\ Unwrap(errs[ret.id]) = NilErr
          /\ GetCause(errs[ret.id]) = NilErr

\* Wrap made a new error around an error that itself wraps a plain error.
C12_Witness ==
    /\ op.name = "Wrap"
    /\ op.arg.err = Plain(3)
    /\ ret = SE(2)
    /\ errs[2].Cause = Plain(3)
    /\ reasons[errs[2].reason].message = "query failed: db down"

\* The details of a list that are of one type, in order.
DetailsOfType(ds, type) == SelectSeq(ds, LAMBDA d : d.type = type)

\* C13: for a non-nil status st, FromGRPCStatus(st) has rpcCode st.Code(),
\* httpCode rpcToHTTP(st.Code()), message st.Message() and code "UNKNOWN" unless
\* st carries an error-info detail; then the code is that detail's reason, the
\* domain is that detail's domain and every metadata entry of the detail is in
\* the error's metadata.  A localized-message detail sets the user-facing
\* reason; details of other kinds change nothing.
C13_FromStatusFields ==
    (op.name = "FromGRPCStatus" /\ ~op.arg.nil) =>
        LET st == op.arg
            e == errs[ret.id]
            infos == DetailsOfType(st.details, "ErrorInfo")
            msgs == DetailsOfType(st.details, "LocalizedMessage")
        IN  /\ ret.kind = "se"
            /\ e.GRPCCode = st.code
            /\ e.HTTPCode = grpcToHTTPCode(st.code)
            /\ reasons[e.reason].message = st.message
            /\ IF infos = <<>>
               THEN /\ reasons[e.reason].code = "UNKNOWN"
                    /\ MapLen(e.Metadata) = 0
                    /\ e.Domain = ""
               ELSE /\ reasons[e.reason].code = infos[Len(infos)].Reason
                    /\ e.Domain = infos[Len(infos)].Domain
                    /\ \A k \in DOMAIN infos[Len(infos)].Metadata :
                          <<k, infos[Len(infos)].Metadata[k]>> \in Pairs(e.Metadata)
            /\ reasons[e.reason].reason =
                   (IF msgs = <<>> THEN "" ELSE msgs[Len(msgs)].Message)

\* A body that is JSON and has the wire shape: string members "code" and
\* "message", and if present a string "reason" and an object "metadata".
HasWireShape(body) ==
    /\ body.valid
    /\ {"code", "message"} \subseteq DOMAIN body.members
    /\ \A f \in DOMAIN body.members \cap {"code", "message", "reason"} :
          body.members[f].t = "string"
    /\ "metadata" \in DOMAIN body.members => body.members["metadata"].t = "object"

\* C14: FromHTTPJSON returns a decode error and no StructuredError whenever the
\* bytes are not JSON or do not have the wire shape (a wrongly typed member, or
\* no "code" or no "message"); on success the result has the given status as
\* httpCode and httpToRPC(status) as rpcCode.
C14_MalformedBodyRejected ==
    op.name = "FromHTTPJSON" =>
        /\ ~HasWireShape(op.arg.jsonBytes) => (ret.err /\ ret.error = NilErr)
        /\ ~ret.err =>
              /\ ret.error.kind = "se"
              /\ errs[ret.error.id].HTTPCode = op.arg.statusCode
              /\ errs[ret.error.id].GRPCCode = httpToGRPCCode(op.arg.statusCode)

\* C15: WriteStandardHTTPError(w, code, message) writes the response with the
\* HTTP status the standard mapping assigns to code, with 500 only for codes
\* absent from the mapping, and the body carries that code and message.
C15_WriteStandardUsesMapping ==
    op.name = "WriteStandardHTTPError" =>
        LET rows == {r \in RegistryTable : r[1] = op.arg.code}
        IN  /\ \A r \in rows : ret.status = r[3]
            /\ rows = {} => ret.status = 500
            /\ ret.body.valid
            /\ ret.body.members["code"].v = op.arg.code
            /\ ret.body.members["message"].v = op.arg.message

\* C16: the conversion is swappable.  With a converter c installed as
\* DefaultConverter, FromHTTPJSON yields rpcCode c.HTTPToGRPC(status),
\* WriteHTTPError makes its error with c.HTTPToGRPC(httpCode), and FromGRPCStatus
\* yields httpCode c.GRPCToHTTP(code); with the built-in converter these are the
\* built-in table values.
C16_ConverterIsUsed ==
    /\ (op.name = "FromHTTPJSON" /\ ~ret.err) =>
          errs[ret.error.id].GRPCCode = HTTPToGRPC(DefaultConverter, op.arg.statusCode)
    /\ op.name = "WriteHTTPError" =>
          errs[Len(errs)].GRPCCode = HTTPToGRPC(DefaultConverter, op.arg.httpCode)
    /\ (op.name = "FromGRPCStatus" /\ ret # NilErr) =>
          errs[ret.id].HTTPCode = GRPCToHTTP(DefaultConverter, op.arg.code)

\* The HTTP statuses the specification maps one by one.
HTTPToRPCTable ==
    {<<400, "InvalidArgument">>, <<401, "Unauthenticated">>,
     <<403, "PermissionDenied">>, <<404, "NotFound">>, <<409, "Aborted">>,
     <<422, "FailedPrecondition">>, <<429, "ResourceExhausted">>,
     <<499, "Canceled">>, <<500, "Internal">>, <<501, "Unimplemented">>,
     <<503, "Unavailable">>, <<504, "DeadlineExceeded">>}

\* C17: httpToRPC answers for every integer: OK for 200..299, the tabulated code
\* for the twelve statuses mapped one by one, InvalidArgument for every other
\* 400..499, and Unknown for everything else.
C17_HTTPToRPCTotal ==
    op.name = "httpToGRPCCode" =>
        LET h == op.arg
            rows == {r \in HTTPToRPCTable : r[1] = h}
        IN  /\ ret \in GRPCCodes
            /\ (h >= 200 /\ h <= 299) => ret = "OK"
            /\ \A r \in rows : ret = r[2]
            /\ (rows = {} /\ h >= 400 /\ h <= 499) => ret = "InvalidArgument"
            /\ (rows = {} /\ (h < 200 \/ (h >= 300 /\ h <= 399) \/ h >= 500)) =>
                   ret = "Unknown"

\* The unmapped 4xx status 418 was converted to InvalidArgument.
C17_Witness ==
    /\ op.name = "httpToGRPCCode"
    /\ op.arg = 418
    /\ ret = "InvalidArgument"

\* The RPC codes and the HTTP statuses the specification gives them.
RPCToHTTPTable ==
    {<<"OK", 200>>, <<"Canceled", 499>>, <<"Unknown", 500>>,
     <<"InvalidArgument", 400>>, <<"DeadlineExceeded", 504>>, <<"NotFound", 404>>,
     <<"AlreadyExists", 409>>, <<"PermissionDenied", 403>>,
     <<"ResourceExhausted", 429>>, <<"FailedPrecondition", 400>>,
     <<"Aborted", 409>>, <<"OutOfRange", 400>>, <<"Unimplemented", 501>>,
     <<"Internal", 500>>, <<"Unavailable", 503>>, <<"DataLoss", 500>>,
     <<"Unauthenticated", 401>>}

\* C18: rpcToHTTP answers for every RPC code value: the tabulated status for each
\* of the 17 standard codes and 500 for a value outside them.
C18_RPCToHTTPTotal ==
    op.name = "grpcToHTTPCode" =>
        LET rows == {r \in RPCToHTTPTable : r[1] = op.arg}
        IN  /\ Cardinality(RPCToHTTPTable) = 17
            /\ \A r \in rows : ret = r[2]
            /\ rows = {} => ret = 500

\* Unimplemented was converted to 501.
C18_Witness ==
    /\ op.name = "grpcToHTTPCode"
    /\ op.arg = "Unimplemented"
    /\ ret = 501

\* C19: ToGRPCStatus attaches a localized-message detail {"en-US", user-facing
\* reason} exactly when the error's user-facing reason is not empty, and
\* FromGRPCStatus sets the user-facing reason from such a detail: a status made
\* with the detail comes back with the same user-facing reason, and an error
\* with an empty reason comes back with an empty reason.
C19_LocalizedMessage ==
    /\ op.name = "ToGRPCStatus" =>
          /\ HasDetail(ret, "LocalizedMessage") <=> GetUserReason(errs[op.recv]) # ""
          /\ HasDetail(ret, "LocalizedMessage") =>
                DetailOf(ret, "LocalizedMessage") =
                    LocalizedMessage("en-US", GetUserReason(errs[op.recv]))
    /\ (op.name = "FromGRPCStatus" /\ op.recv # 0 /\ ret # NilErr) =>
          /\ HasDetail(op.arg, "LocalizedMessage") =>
                GetUserReason(Result) = GetUserReason(Source)
          /\ GetUserReason(Source) = "" => GetUserReason(Result) = ""

\* The operations that only read an error.
ReadNames ==
    {"GetMetadata", "GetBadRequest", "GetPreconditionFailure", "GetErrorInfo",
     "ToHTTPJSON", "ToGRPCStatus", "Is", "Error"}

\* C20: each WithMetadata(k, v) leaves a non-nil map that holds what it held
\* before, except that k now maps to v; no read operation changes the error, so
\* the map of an error that starts without metadata is nil exactly as long as
\* nothing was written: it is allocated by the first write only and holds
\* exactly the keys written, each with the value of the last write.
C20_MetadataWrittenOnlyByWrites ==
    /\ errs[1].Metadata.nil <=> Pairs(errs[1].Metadata) = {}
    /\ op.name = "WithMetadata" =>
          /\ ~errs[op.recv].Metadata.nil
          /\ Pairs(errs[op.recv].Metadata) =
                {p \in Pairs(op.errs[op.recv].Metadata) : p[1] # op.arg.key}
                    \cup {<<op.arg.key, op.arg.value>>}
    /\ op.name \in ReadNames => (errs = op.errs /\ reasons = op.reasons)

\* A key written before was written again with another value, next to a second
\* key.
C20_Witness ==
    /\ op.name = "WithMetadata"
    /\ op.arg.key = "k"
    /\ op.arg.value = "w"
    /\ <<"k", "v">> \in Pairs(op.errs[1].Metadata)
    /\ Pairs(errs[1].Metadata) = {<<"k", "w">>, <<"j", "v">>}

\* The three strings of an error, read through its reason in a given heap.
MessageIn(e, rs) == IF e.reason = 0 THEN "" ELSE rs[e.reason].message
UserReasonIn(e, rs) == IF e.reason = 0 THEN "" ELSE rs[e.reason].reason
HoldsDefaultIn(e, rs) == e.reason # 0 /\ rs[e.reason].kind = "default"
HoldsCustomIn(e, rs) == e.reason # 0 /\ rs[e.reason].kind = "custom"

\* C21: after WithReason(text) the error's user-facing reason is text and its
\* code and message are what they were; a default Reason is written in place
\* (the error holds the same Reason object and no Reason is created), a custom
\* Reason is replaced by a new default Reason holding the old code, the old
\* message and text, and the custom Reason object is left as it was.
C21_WithReasonSetsUserReasonOnly ==
    op.name = "WithReason" =>
        LET old == op.errs[op.recv]
            e == errs[op.recv]
        IN  /\ ret = SE(op.recv)
            /\ UserReasonIn(e, reasons) = op.arg.reason
            /\ CodeIn(e, reasons) = CodeIn(old, op.reasons)
            /\ MessageIn(e, reasons) = MessageIn(old, op.reasons)
            /\ HoldsDefaultIn(old, op.reasons) =>
                  /\ e.reason = old.reason
                  /\ Len(reasons) = Len(op.reasons)
            /\ HoldsCustomIn(old, op.reasons) =>
                  /\ e.reason = Len(op.reasons) + 1
                  /\ Len(reasons) = Len(op.reasons) + 1
                  /\ reasons[e.reason] =
                        [kind |-> "default", code |-> CodeIn(old, op.reasons),
                         message |-> MessageIn(old, op.reasons),
                         reason |-> op.arg.reason]
                  /\ reasons[old.reason] = op.reasons[old.reason]

\* WithReason was called on an error holding a custom Reason with a user-facing
\* reason of its own.
C21_Witness ==
    /\ op.name = "WithReason"
    /\ HoldsCustomIn(op.errs[op.recv], op.reasons)
    /\ UserReasonIn(op.errs[op.recv], op.reasons) = "old"
    /\ UserReasonIn(errs[op.recv], reasons) = "try again"

MetadataMutators ==
    {"WithMetadata", "WithErrorInfo", "WithBadRequest", "WithPreconditionFailure"}
ReasonMutators == {"WithReason", "WithCustomReason"}
FluentMutators == MetadataMutators \cup ReasonMutators \cup {"WithGRPCCode", "WithHTTPCode"}

\* C22: a fluent mutator returns the error it was called on, creates no error
\* and leaves every other error's fields alone; WithGRPCCode changes GRPCCode
\* only, to its argument, WithHTTPCode changes HTTPCode only, to its argument,
\* the metadata mutators change Metadata only and the reason mutators change
\* the reason only. Either code is therefore what the last setter of that
\* code gave, whatever was done to the other code.
C22_MutatorsChangeOwnFieldOnly ==
    op.name \in FluentMutators =>
        LET old == op.errs[op.recv]
            e == errs[op.recv]
        IN  /\ ret = SE(op.recv)
            /\ Len(errs) = Len(op.errs)
            /\ \A j \in 1..Len(errs) : j # op.recv => errs[j] = op.errs[j]
            /\ op.name = "WithGRPCCode" =>
                  /\ e = [old EXCEPT !.GRPCCode = op.arg.code]
                  /\ reasons = op.reasons
            /\ op.name = "WithHTTPCode" =>
                  /\ e = [old EXCEPT !.HTTPCode = op.arg.code]
                  /\ reasons = op.reasons
            /\ op.name \in MetadataMutators =>
                  /\ e = [old EXCEPT !.Metadata = e.Metadata]
                  /\ reasons = op.reasons
            /\ op.name \in ReasonMutators =>
                  e = [old EXCEPT !.reason = e.reason]

\* Both codes of one error were set one after the other, to values neither
\* code table relates: gRPC Internal next to HTTP 422.
C22_Witness ==
    /\ op.name = "WithHTTPCode"
    /\ op.arg.code = 422
    /\ op.errs[op.recv].GRPCCode = "Internal"
    /\ op.errs[op.recv].HTTPCode = 409
    /\ errs[op.recv].GRPCCode = "Internal"
    /\ errs[op.recv].HTTPCode = 422

\* C23: ToHTTP calls the writer three times: it sets the header Content-Type to
\* application/json, then writes the status line with the error's HTTPCode,
\* then writes the body; the body's document is the one ToHTTPJSON returns for
\* the same error (reason and metadata left out when empty) and the status is
\* the status ToHTTPJSON returns.
C23_ToHTTPWritesInOrder ==
    op.name = "ToHTTP" =>
        LET e == op.errs[op.recv]
            members == DOMAIN ret[3].doc.members
        IN  /\ Len(ret) = 3
            /\ ret[1] = [call |-> "Header().Set", key |-> "Content-Type",
                         value |-> "application/json"]
            /\ ret[2].call = "WriteHeader"
            /\ ret[2].statusCode = e.HTTPCode
            /\ ret[2].statusCode = ToHTTPJSONOf(e).status
            /\ ret[3].call = "Write"
            /\ ret[3].doc = ToHTTPJSONOf(e).jsonBytes
            /\ {"code", "message"} \subseteq members
            /\ members \subseteq {"code", "message", "reason", "metadata"}
            /\ "reason" \in members <=> UserReasonIn(e, op.reasons) # ""
            /\ "metadata" \in members <=> MapLen(e.Metadata) > 0

\* An error with a user-facing reason and an allocated but empty metadata map
\* was written: the body has a reason member and no metadata member.
C23_Witness ==
    /\ op.name = "ToHTTP"
    /\ op.errs[op.recv].Metadata = MakeMap
    /\ op.errs[op.recv].HTTPCode = 422
    /\ DOMAIN ret[3].doc.members = {"code", "message", "reason"}

\* The conversions out of an error, the detail readers, Is, Error and the
\* accessors.
PureNames ==
    {"ToHTTPJSON", "ToHTTP", "ToGRPCStatus", "GetErrorInfo", "GetBadRequest",
     "GetPreconditionFailure", "Is", "Error", "GetReason", "GetCode", "GetMessage",
     "GetUserReason", "GetGRPCCode", "GetHTTPCode", "GetMetadata", "GetCause"}

\* What a call named name on error e answers in the present heap.
AnswerNow(name, e) ==
    CASE name = "ToHTTPJSON" -> ToHTTPJSONOf(e)
      [] name = "ToHTTP" -> ToHTTPCalls(e)
      [] name = "ToGRPCStatus" -> ToGRPCStatusOf(e)
      [] name = "GetErrorInfo" -> GetErrorInfoOf(e)
      [] name = "GetBadRequest" -> GetBadRequestOf(e)
      [] name = "GetPreconditionFailure" -> GetPreconditionFailureOf(e)
      [] name = "Error" -> ErrorOfStructured(e)
      [] name = "GetReason" -> e.reason
      [] name = "GetCode" -> GetCode(e)
      [] name = "GetMessage" -> GetMessage(e)
      [] name = "GetUserReason" -> GetUserReason(e)
      [] name = "GetGRPCCode" -> e.GRPCCode
      [] name = "GetHTTPCode" -> e.HTTPCode
      [] name = "GetMetadata" -> e.Metadata
      [] name = "GetCause" -> e.Cause

\* C24: a conversion out of an error, a detail reader, Is, Error or an accessor
\* leaves every error and every Reason as it was, so the same call made again
\* answers the same; FromGRPCStatus and FromHTTPJSON leave every existing error
\* and Reason as it was and add at most one new error.
C24_ReadsAndConversionsArePure ==
    /\ op.name \in PureNames =>
          /\ errs = op.errs
          /\ reasons = op.reasons
          /\ op.name # "Is" => ret = AnswerNow(op.name, errs[op.recv])
          /\ op.name = "Is" => ret = IsOf(errs[op.recv], op.arg.target)
    /\ op.name \in {"FromGRPCStatus", "FromHTTPJSON"} =>
          /\ Len(errs) \in {Len(op.errs), Len(op.errs) + 1}
          /\ SubSeq(errs, 1, Len(op.errs)) = op.errs
          /\ SubSeq(reasons, 1, Len(op.reasons)) = op.reasons

\* An error with metadata and a user-facing reason was converted to a status,
\* the status was read back into a second error, and the first error is as it
\* was before both calls.
C24_Witness ==
    /\ op.name = "FromGRPCStatus"
    /\ op.recv = 1
    /\ Len(errs) = 2
    /\ MapLen(errs[1].Metadata) = 3
    /\ UserReasonIn(errs[1], reasons) = "try again"
    /\ errs[1] = op.errs[1]

\* C25: Wrap(e, newCode) on a StructuredError e changes its reason only: the
\* gRPC code and the HTTP code stay as they were, also for a code of the
\* standard registry, and so do metadata and cause; the reason is a new default
\* Reason with newCode, the old message and an empty user-facing reason, and
\* the Reasons that existed are left as they were.
C25_WrapKeepsCodesDropsUserReason ==
    (op.name = "Wrap" /\ op.arg.err.kind = "se") =>
        LET i == op.arg.err.id
            old == op.errs[i]
            e == errs[i]
        IN  /\ ret = SE(i)
            /\ e = [old EXCEPT !.reason = Len(op.reasons) + 1]
            /\ e.GRPCCode = old.GRPCCode
            /\ e.HTTPCode = old.HTTPCode
            /\ reasons = Append(op.reasons,
                                NewDefaultReason(op.arg.code, MessageIn(old, op.reasons)))
            /\ CodeIn(e, reasons) = op.arg.code
            /\ MessageIn(e, reasons) = MessageIn(old, op.reasons)
            /\ UserReasonIn(e, reasons) = ""

\* An error with codes Unknown/500 and a user-facing reason was wrapped with the
\* registered code NOT_FOUND: the codes are still Unknown/500 and the
\* user-facing reason is gone.
C25_Witness ==
    /\ op.name = "Wrap"
    /\ op.arg.err.kind = "se"
    /\ op.arg.code = "NOT_FOUND"
    /\ UserReasonIn(op.errs[op.arg.err.id], op.reasons) = "try again"
    /\ errs[op.arg.err.id].GRPCCode = "Unknown"
    /\ errs[op.arg.err.id].HTTPCode = 500
    /\ UserReasonIn(errs[op.arg.err.id], reasons) = ""

\* C26: for an error with nil or empty metadata and a gRPC code other than OK,
\* FromGRPCStatus(ToGRPCStatus(e)) is an error with code "UNKNOWN", e's message
\* and e's gRPC code; and for every error the round trip gives back e's code
\* exactly when the status carries the error-info detail.
C26_CodeCrossesInErrorInfoOnly ==
    (op.name = "FromGRPCStatus" /\ op.recv # 0) =>
        /\ (MapLen(Source.Metadata) = 0 /\ Source.GRPCCode # "OK") =>
              /\ ret.kind = "se"
              /\ GetCode(Result) = "UNKNOWN"
              /\ GetMessage(Result) = GetMessage(Source)
              /\ Result.GRPCCode = Source.GRPCCode
        /\ (ret.kind = "se" /\ GetCode(Result) = GetCode(Source))
              <=> (~op.arg.nil /\ HasDetail(op.arg, "ErrorInfo"))

\* The error has the codes NewStandardError gave it for its registered code.
AsBuiltByNewStandard(e, rs) ==
    /\ CodeIn(e, rs) \in DOMAIN StandardErrorMapping
    /\ e.GRPCCode = StandardErrorMapping[CodeIn(e, rs)].GRPCCode
    /\ e.HTTPCode = StandardErrorMapping[CodeIn(e, rs)].HTTPCode

\* C27: when ToGRPCStatus(e) is a status, FromGRPCStatus of it has e's gRPC
\* code and the HTTP code the table gives for that gRPC code, whatever e's HTTP
\* code was, so e's HTTP code comes back exactly when it is the table's; for an
\* error with the codes NewStandardError gave it that is the case for every
\* registered code but DATA_VALIDATION and BUSINESS_RULE, whose 422 comes back
\* as 400.
C27_HTTPCodeRederivedFromRPCCode ==
    (op.name = "FromGRPCStatus" /\ op.recv # 0 /\ ~op.arg.nil) =>
        /\ ret.kind = "se"
        /\ Result.GRPCCode = Source.GRPCCode
        /\ Result.HTTPCode = grpcToHTTPCode(Source.GRPCCode)
        /\ (Result.HTTPCode = Source.HTTPCode)
              <=> (Source.HTTPCode = grpcToHTTPCode(Source.GRPCCode))
        /\ AsBuiltByNewStandard(Source, op.reasons) =>
              /\ (Result.HTTPCode = Source.HTTPCode)
                    <=> CodeIn(Source, op.reasons) \notin {"DATA_VALIDATION", "BUSINESS_RULE"}
              /\ CodeIn(Source, op.reasons) \in {"DATA_VALIDATION", "BUSINESS_RULE"} =>
                    (Source.HTTPCode = 422 /\ Result.HTTPCode = 400)

\* A DATA_VALIDATION error as NewStandardError made it, with metadata so that
\* its code crosses as well, came back with HTTP code 400.
C27_Witness ==
    /\ op.name = "FromGRPCStatus"
    /\ op.recv # 0
    /\ ret.kind = "se"
    /\ AsBuiltByNewStandard(Source, op.reasons)
    /\ GetCode(Result) = "DATA_VALIDATION"
    /\ Source.HTTPCode = 422
    /\ Result.HTTPCode = 400

\* The HTTP statuses and the gRPC codes the specification says come back.
HTTPFixedPoints == {200, 400, 401, 403, 404, 409, 429, 499, 500, 501, 503, 504}
RPCFixedPoints ==
    {"OK", "Canceled", "InvalidArgument", "DeadlineExceeded", "NotFound",
     "PermissionDenied", "ResourceExhausted", "Aborted", "Unimplemented",
     "Internal", "Unavailable", "Unauthenticated"}

\* C28: grpcToHTTPCode(httpToGRPCCode(h)) = h for each of the twelve statuses
\* 200, 400, 401, 403, 404, 409, 429, 499, 500, 501, 503, 504, and 422 comes
\* back as 400 through FailedPrecondition; httpToGRPCCode(grpcToHTTPCode(c)) = c
\* for exactly twelve codes, the other five standard codes (Unknown,
\* AlreadyExists, FailedPrecondition, OutOfRange, DataLoss) coming back as
\* another code.
C28_TablesPartlyInverse ==
    /\ op.name = "grpcToHTTPCode.httpToGRPCCode" =>
          /\ op.arg \in HTTPFixedPoints => ret.back = op.arg
          /\ op.arg = 422 => (ret.via = "FailedPrecondition" /\ ret.back = 400)
    /\ op.name = "httpToGRPCCode.grpcToHTTPCode" =>
          /\ ret.back = op.arg <=> op.arg \in RPCFixedPoints
          /\ GRPCCodes \ RPCFixedPoints =
                {"Unknown", "AlreadyExists", "FailedPrecondition", "OutOfRange",
                 "DataLoss"}

\* AlreadyExists went to 409 and came back as Aborted.
C28_Witness ==
    /\ op.name = "httpToGRPCCode.grpcToHTTPCode"
    /\ op.arg = "AlreadyExists"
    /\ ret = [via |-> 409, back |-> "Aborted"]

\* C29: when WithReason(text) is called on an error that shares its Reason
\* object with another error, a shared default Reason is written in place, so
\* the other error still holds the same object and its user-facing reason is
\* text too; a shared custom Reason is left alone, so the other error keeps
\* the object with the code, message and user-facing reason it had, and only
\* the receiver holds a new Reason.
C29_ReasonAliasing ==
    op.name = "WithReason" =>
        \A j \in 1..Len(errs) :
            (/\ j # op.recv
             /\ op.errs[j].reason # 0
             /\ op.errs[j].reason = op.errs[op.recv].reason) =>
                /\ errs[j].reason = op.errs[j].reason
                /\ HoldsDefaultIn(op.errs[j], op.reasons) =>
                      /\ errs[op.recv].reason = errs[j].reason
                      /\ UserReasonIn(errs[j], reasons) = op.arg.reason
                      /\ UserReasonIn(errs[op.recv], reasons) = op.arg.reason
                /\ HoldsCustomIn(op.errs[j], op.reasons) =>
                      /\ errs[op.recv].reason # errs[j].reason
                      /\ UserReasonIn(errs[op.recv], reasons) = op.arg.reason
                      /\ CodeIn(errs[j], reasons) = CodeIn(op.errs[j], op.reasons)
                      /\ MessageIn(errs[j], reasons) = MessageIn(op.errs[j], op.reasons)
                      /\ UserReasonIn(errs[j], reasons) =
                            UserReasonIn(op.errs[j], op.reasons)

\* Two errors held the same default Reason with the user-facing reason "old";
\* WithReason was called on the first and the second answers "try again".
C29_Witness ==
    /\ op.name = "WithReason"
    /\ op.recv = 1
    /\ op.errs[1].reason = op.errs[2].reason
    /\ HoldsDefaultIn(op.errs[2], op.reasons)
    /\ UserReasonIn(op.errs[2], op.reasons) = "old"
    /\ UserReasonIn(errs[2], reasons) = "try again"

\* What a non-structured error wraps, an error of another kind being left as
\* it is; and the first StructuredError among an error and the three errors
\* under it, 0 when there is none (no chain of the heap is longer).
Under(err) == IF err.kind = "plain" THEN plains[err.id].wraps ELSE err
StructuredInChain(err) ==
    LET chain == <<err, Under(err), Under(Under(err)), Under(Under(Under(err)))>>
        found == {n \in 1..4 : chain[n].kind = "se"}
    IN  IF found = {} THEN 0
        ELSE chain[CHOOSE n \in found : \A k \in found : n <= k].id

\* C30: for a non-structured error err whose Unwrap chain holds a
\* StructuredError s, directly or under further wrappers, Wrap(err, code) and
\* WrapWithReason(err, reason) return s itself and create no error; s has the
\* cause it had, which is not err, Wrap gives it the code and leaves its
\* message, which is not err's text, and WrapWithReason gives it the reason.
\* When the chain holds no StructuredError, and only then, a new
\* StructuredError with cause err is created.
C30_WrapFindsStructuredInChain ==
    (op.name \in {"Wrap", "WrapWithReason"} /\ op.arg.err.kind = "plain") =>
        LET err == op.arg.err
            s == StructuredInChain(err)
        IN  /\ (Len(errs) = Len(op.errs) + 1) <=> (s = 0)
            /\ s # 0 =>
                  /\ ret = SE(s)
                  /\ Len(errs) = Len(op.errs)
                  /\ errs[s].Cause = op.errs[s].Cause
                  /\ errs[s].Cause # err
                  /\ op.name = "Wrap" =>
                        /\ CodeIn(errs[s], reasons) = op.arg.code
                        /\ MessageIn(errs[s], reasons) = MessageIn(op.errs[s], op.reasons)
                        /\ MessageIn(errs[s], reasons) # ErrorText(err)
                  /\ op.name = "WrapWithReason" =>
                        errs[s].reason = op.arg.reason
            /\ s = 0 =>
                  /\ ret = SE(Len(op.errs) + 1)
                  /\ errs[ret.id].Cause = err
                  /\ SubSeq(errs, 1, Len(op.errs)) = op.errs

\* Wrap was called on a wrapper of a wrapper of the first StructuredError and
\* returned that error, with the new code and its own message.
C30_Witness ==
    /\ op.name = "Wrap"
    /\ op.arg.err = Plain(4)
    /\ plains[4].wraps = Plain(2)
    /\ plains[2].wraps = SE(1)
    /\ ret = SE(1)
    /\ Len(errs) = Len(op.errs)
    /\ CodeIn(errs[1], reasons) = op.arg.code
    /\ MessageIn(errs[1], reasons) = "m2"

====
